---- MODULE Spec2Model ----
(***************************************************************************)
(* Model of the slashcmd interactive session (cli/src/tui.rs) together     *)
(* with the client bridge (get_command / get_explanation), the daemon's    *)
(* request handler (cli/src/daemon.rs) and the edge stream worker          *)
(* (cli/src/edge.rs).                                                       *)
(*                                                                         *)
(* The control thread of run_interactive_impl is the process `pc`; the     *)
(* command worker and the explanation worker are separate processes that   *)
(* talk to it over the two mpsc channels cmd_chan and exp_chan.  The       *)
(* terminal is modelled as a column of rows with a cursor, so that the     *)
(* cursor arithmetic of the renderer is computed, not assumed.             *)
(*                                                                         *)
(* Environment assumptions: terminal writes succeed; every printed line    *)
(* fits the terminal width (no wrapping); the pbcopy hand-off receives     *)
(* what the session writes to it; key events are drawn at the moment the   *)
(* session polls the keyboard source.                                      *)
(***************************************************************************)
EXTENDS Integers, Sequences, FiniteSets, TLC

\* ------------------------------------------------------------------ bounds
MaxKeys == 2        \* key events read in one session
MaxEvents == 3      \* SSE events consumed from one edge stream
MaxExpLines == 16   \* longest formatted explanation (one more than reserved)
MaxStartRow == 1    \* the session starts on screen row 0..MaxStartRow, or on the last row
TermRows == 24      \* screen height
MaxConns == 2       \* connections made to the daemon socket

\* ------------------------------------------------------- program constants
RESERVED_LINES == 15
DAEMON_IDLE_TIMEOUT_SECS == 300

\* ------------------------------------------------------------ plain values
Max(a, b) == IF a >= b THEN a ELSE b
Min(a, b) == IF a <= b THEN a ELSE b

\* Queries the user may type (the free-form query string).
Queries == {"list files", "EXPLAIN ls", "unexplained errors"}

\* str::to_lowercase on the queries above.
to_lowercase(q) ==
    CASE q = "EXPLAIN ls" -> "explain ls"
      [] OTHER -> q

\* str::contains("explain") on lower-cased queries.
contains_explain(s) ==
    CASE s = "list files" -> FALSE
      [] s = "explain ls" -> TRUE
      [] s = "unexplained errors" -> TRUE
      [] OTHER -> FALSE

\* let force_wait = query.to_lowercase().contains("explain");
force_wait_of(q) == contains_explain(to_lowercase(q))

Commands == {"ls -la", "rm -rf /tmp/x"}

\* Result<CommandResult, String>
OkCmd(c, s) == [ok |-> TRUE, command |-> c, safe |-> s, error |-> ""]
ErrCmd(e) == [ok |-> FALSE, command |-> "", safe |-> FALSE, error |-> e]
NoCmd == [ok |-> FALSE, command |-> "", safe |-> FALSE, error |-> "none"]

\* What GroqClient::query can return: a parsed CommandResult or an error text.
ResolverOutcomes ==
    {OkCmd(c, s) : c \in Commands, s \in BOOLEAN} \cup {ErrCmd("HTTP error")}

\* Explanation texts, abstracted to what the renderer looks at: the leading
\* safety tag, whether "[DANGER]" occurs anywhere else in the text, and the
\* number n of lines format_explanation yields for it.
NoneExp == [tag |-> "absent", mentions_danger |-> FALSE, n |-> 0]
LineCounts == {1} \cup ((RESERVED_LINES - 1) .. MaxExpLines)
Explanations ==
    {[tag |-> t, mentions_danger |-> m, n |-> k] :
        t \in {"SAFE", "CAUTION", "DANGER"}, m \in BOOLEAN, k \in LineCounts}
    \cup {[tag |-> "NONE", mentions_danger |-> m, n |-> k] :
        m \in BOOLEAN, k \in {0, 1}}

\* Result<String, String> carried by the explanation channel.
OkExp(e) == [ok |-> TRUE, exp |-> e, error |-> ""]
ErrExp(msg) == [ok |-> FALSE, exp |-> NoneExp, error |-> msg]
NoExpResult == [ok |-> FALSE, exp |-> NoneExp, error |-> "none"]

ExplainerOutcomes == {OkExp(e) : e \in Explanations} \cup {ErrExp("HTTP error")}

\* What a further "explanation" event of the same edge stream may carry.
RepeatedExplanations == {[tag |-> "DANGER", mentions_danger |-> FALSE, n |-> 1]}

\* TuiResult, and the Err(String) of Result<TuiResult, String>.
NoResult == [kind |-> "none", text |-> ""]
Execute(c) == [kind |-> "Execute", text |-> c]
Cancel == [kind |-> "Cancel", text |-> ""]
ErrResult(e) == [kind |-> "Err", text |-> e]

\* Key events the keyboard source can deliver.
KeyEvents == {"Enter", "Esc", "CtrlC", "CtrlAltC", "Char"}

\* --------------------------------------------------------------- terminal
\* A row holds one cell <<kind, index>>.
Cell(kind) == <<kind, 0>>
MaxRow == TermRows + RESERVED_LINES + 4
Rows == 0 .. MaxRow

\* Print("\r\n"): next row, scrolling when the cursor is on the last screen row.
NL(t) ==
    [t EXCEPT !.cur = t.cur + 1,
              !.top = IF t.cur = t.top + TermRows - 1 THEN t.top + 1 ELSE t.top]

\* MoveUp(n): the terminal stops the cursor at the top screen row.
MoveUp(t, n) == [t EXCEPT !.cur = Max(t.top, t.cur - n)]

\* Clear(ClearType::CurrentLine)
ClearLine(t) == [t EXCEPT !.rows[t.cur] = Cell("blank")]

\* Print(text) on the current row.
Put(t, cell) == [t EXCEPT !.rows[t.cur] = cell]

\* The screen when the session starts on row r: rows above hold earlier output.
InitTerm(r) ==
    [rows |-> [i \in Rows |-> IF i < r THEN Cell("prev") ELSE Cell("blank")],
     cur |-> r, top |-> Max(0, r - (TermRows - 1)), start |-> r, cmd_row |-> 0 - 1]

StartRows == (0 .. MaxStartRow) \cup {TermRows - 1}

\* lines_to_go_up = 2 + 1 + RESERVED_LINES
lines_to_go_up == 2 + 1 + RESERVED_LINES

\* "Generating command..." on the current row.
DrawGenerating(t) == Put(ClearLine(t), Cell("generating"))

\* The auto-execute output: the command on the cleared current row, then \r\n.
DrawAutoExecute(t) == NL(Put(ClearLine(t), Cell("cmd")))

\* for _ in 0..RESERVED_LINES { Print("·"), Print("\r\n") }
RECURSIVE DrawPlaceholders(_, _)
DrawPlaceholders(t, k) ==
    IF k = 0 THEN t ELSE DrawPlaceholders(NL(Put(t, Cell("dot"))), k - 1)

\* The first drawing of the command and the prompt, with the reserved region
\* above them when an explanation channel exists.
DrawLayout(t, has_explanation) ==
    LET t0 == ClearLine(t)
        t1 == IF has_explanation
                THEN NL(DrawPlaceholders(t0, RESERVED_LINES))
                ELSE t0
        t2 == [Put(t1, Cell("cmd")) EXCEPT !.cmd_row = t1.cur]
        t3 == NL(t2)
    IN  Put(t3, IF has_explanation THEN Cell("loading") ELSE Cell("prompt"))

\* for line in exp_lines.iter().take(RESERVED_LINES) { Clear, Print(line), \r\n }
RECURSIVE WriteExpLines(_, _, _)
WriteExpLines(t, i, last) ==
    IF i > last THEN t
    ELSE WriteExpLines(NL(Put(ClearLine(t), <<"exp", i>>)), i + 1, last)

\* for _ in from..RESERVED_LINES { Clear, \r\n }   (empty when from >= RESERVED_LINES)
RECURSIVE ClearRows(_, _)
ClearRows(t, from) ==
    IF from >= RESERVED_LINES THEN t ELSE ClearRows(NL(ClearLine(t)), from + 1)

\* Clear, Print(command), \r\n, Clear, Print(prompt)
DrawCommandAndPrompt(t, cmd_cell, prompt_cell) ==
    Put(ClearLine(NL(Put(ClearLine(t), cmd_cell))), prompt_cell)

\* An explanation of n formatted lines has arrived: move up, fill the
\* region, skip the blank row, redraw the command and the prompt.
DrawExplanation(t, n, is_danger) ==
    LET t0 == MoveUp(t, lines_to_go_up)
        t1 == WriteExpLines(t0, 1, Min(n, RESERVED_LINES))
        t2 == ClearRows(t1, n)
        t3 == NL(t2)
    IN  IF is_danger
          THEN DrawCommandAndPrompt(t3, Cell("cmd_red"), Cell("danger_prompt"))
          ELSE DrawCommandAndPrompt(t3, Cell("cmd"), Cell("prompt"))

DrawFailure_no_command(t) ==
    LET t0 == MoveUp(t, lines_to_go_up)
        t1 == ClearRows(t0, 0)
        t2 == NL(t1)
    IN  Put(ClearLine(NL(ClearLine(t2))), Cell("prompt"))

\* The explanation failed: clear the region and redraw the command and prompt.
DrawFailure(t) ==
    LET t0 == MoveUp(t, lines_to_go_up)
        t1 == ClearRows(t0, 0)
        t2 == NL(t1)
    IN  DrawCommandAndPrompt(t2, Cell("cmd"), Cell("prompt"))

\* MoveToColumn(0), Clear, Print("<message>\r\n")
DrawMessage(t, kind) == NL(Put(ClearLine(t), Cell(kind)))

\* ----------------------------------------------------- socket channel, daemon
Some(x) == <<x>>
None == <<>>
unwrap_or(opt, d) == IF opt = <<>> THEN d ELSE opt[1]

handle_request_accepts_any_line(request, groq_out, gemini_key, gemini_out) ==
    CASE request = "command" ->
            IF groq_out.ok
              THEN [success |-> TRUE, result |-> Some(groq_out.command), error |-> None]
              ELSE [success |-> FALSE, result |-> None, error |-> Some(groq_out.error)]
      [] request = "explain" ->
            IF ~gemini_key
              THEN [success |-> FALSE, result |-> None, error |-> Some("GEMINI_API_KEY not set")]
              ELSE IF gemini_out.ok
                THEN [success |-> TRUE, result |-> Some(gemini_out.exp), error |-> None]
                ELSE [success |-> FALSE, result |-> None, error |-> Some(gemini_out.error)]
      [] OTHER ->
            [success |-> TRUE, result |-> Some(""), error |-> None]

handle_request_error_without_text(request, groq_out, gemini_key, gemini_out) ==
    CASE request = "command" ->
            IF groq_out.ok
              THEN [success |-> TRUE, result |-> Some(groq_out.command), error |-> None]
              ELSE [success |-> FALSE, result |-> None, error |-> None]
      [] request = "explain" ->
            IF ~gemini_key
              THEN [success |-> FALSE, result |-> None, error |-> Some("GEMINI_API_KEY not set")]
              ELSE IF gemini_out.ok
                THEN [success |-> TRUE, result |-> Some(gemini_out.exp), error |-> None]
                ELSE [success |-> FALSE, result |-> None, error |-> Some(gemini_out.error)]
      [] OTHER ->
            [success |-> FALSE, result |-> None, error |-> Some("Invalid request")]

\* What the daemon answers to a request line.  groq_out / gemini_out are the
\* outcomes of the remote calls it would make, gemini_key says whether the
\* daemon was started with an Explainer credential.
handle_request(request, groq_out, gemini_key, gemini_out) ==
    CASE request = "command" ->
            IF groq_out.ok
              THEN [success |-> TRUE, result |-> Some(groq_out.command), error |-> None]
              ELSE [success |-> FALSE, result |-> None, error |-> Some(groq_out.error)]
      [] request = "explain" ->
            IF ~gemini_key
              THEN [success |-> FALSE, result |-> None, error |-> Some("GEMINI_API_KEY not set")]
              ELSE IF gemini_out.ok
                THEN [success |-> TRUE, result |-> Some(gemini_out.exp), error |-> None]
                ELSE [success |-> FALSE, result |-> None, error |-> Some(gemini_out.error)]
      [] OTHER ->
            [success |-> FALSE, result |-> None, error |-> Some("Invalid request")]

send_request_swallows_failure(wire, response, default) ==
    [ok |-> TRUE, value |-> unwrap_or(response.result, default), error |-> ""]

\* IpcClient::send_request: a failed write_all or read_line is returned as
\* its own error; wire = "eof" is a connection that closes without a response
\* line and any other wire a line that is not an IpcResponse, both rejected
\* by from_str; an IpcResponse is returned by its success flag.
send_request(wire, response, default) ==
    IF wire \in {"write error", "read error"}
      THEN [ok |-> FALSE, value |-> default,
            error |-> IF wire = "write error" THEN "Write error" ELSE "Read error"]
    ELSE IF wire # "ok"
      THEN [ok |-> FALSE, value |-> default, error |-> "Parse error"]
      ELSE IF response.success
        THEN [ok |-> TRUE, value |-> unwrap_or(response.result, default), error |-> ""]
        ELSE [ok |-> FALSE, value |-> default, error |-> unwrap_or(response.error, "Unknown error")]

Wires == {"ok", "eof"}
BridgeWires == Wires \cup {"write error", "read error", "bad json"}

\* tui.rs get_command: the daemon when try_connect succeeds, else the direct call.
get_command(connected, wire, groq_out) ==
    IF connected
      THEN LET r == send_request(wire, handle_request("command", groq_out, FALSE, NoExpResult), "")
           IN  IF r.ok THEN OkCmd(r.value, FALSE) ELSE ErrCmd(r.error)
      ELSE groq_out

\* tui.rs get_explanation: the daemon when try_connect succeeds, else the direct call.
get_explanation(connected, wire, daemon_key, gemini_out) ==
    IF connected
      THEN LET r == send_request(wire, handle_request("explain", NoCmd, daemon_key, gemini_out), NoneExp)
           IN  IF r.ok THEN OkExp(r.value) ELSE ErrExp(r.error)
      ELSE gemini_out

\* ------------------------------------------------------ safety state machine
auto_execute_or(safe, force_wait) == safe \/ ~force_wait
auto_execute_ignores_query(safe, force_wait) == safe

\* if is_safe && !force_wait { ... return Ok(TuiResult::Execute(command)) }
auto_execute(safe, force_wait) == safe /\ ~force_wait

spawns_explainer_early(auto, edge, key) == ~edge /\ key

\* The Gemini thread (lines 170-183) is spawned only past the auto-execute
\* return, in direct mode, when an Explainer key is present.
spawns_explainer(auto, edge, key) == ~auto /\ ~edge /\ key

polls_explanation_again(rx, printed) == rx

\* if let Some(ref rx) = explanation_rx { if !explanation_printed { rx.try_recv() .. } }
polls_explanation(rx, printed) == rx /\ ~printed

after_disconnect_keeps_polling(printed) == printed

\* Err(TryRecvError::Disconnected) => { explanation_printed = true; }
after_disconnect(printed) == TRUE

\* let is_danger = exp.contains("[DANGER]");
is_danger_of(e) == e.tag = "DANGER" \/ e.mentions_danger

key_outcome_any_key_cancels(k) ==
    CASE k = "Enter" -> "execute"
      [] OTHER -> "cancel"

key_outcome_esc_ignored(k) ==
    CASE k = "Enter" -> "execute"
      [] k = "CtrlC" -> "cancel"
      [] OTHER -> "ignore"

\* The key match of the main loop: Enter, exactly Ctrl+C, Esc; all else ignored.
key_outcome(k) ==
    CASE k = "Enter" -> "execute"
      [] k \in {"CtrlC", "Esc"} -> "cancel"
      [] OTHER -> "ignore"

danger_key_outcome_enter_cancels(k) ==
    CASE k \in {"Enter", "CtrlC", "CtrlAltC", "Esc"} -> "cancel"
      [] OTHER -> "ignore"

\* The key match of the DANGER loop: Enter copies; 'c' with the CONTROL
\* modifier held (alone or with others) and Esc cancel; all else ignored.
danger_key_outcome(k) ==
    CASE k = "Enter" -> "copy"
      [] k \in {"CtrlC", "CtrlAltC", "Esc"} -> "cancel"
      [] OTHER -> "ignore"

\* The command text handed back in TuiResult::Execute.
execute_text(cmd) == cmd

\* ------------------------------------------------------------------- state
VARIABLES
    query,               \* the query string of this invocation
    source,              \* CommandSource: "Direct" or "Edge"
    gemini_api_key,      \* _gemini_api_key.is_some()
    pc,                  \* control thread: start, wait_cmd, loop_exp, loop_keys, danger_loop, returned
    raw_mode,            \* terminal raw mode enabled
    cmd_worker,          \* command worker thread: unspawned, spawned, streaming, exited
    exp_worker,          \* direct-mode explanation thread: unspawned, running, exited
    cmd_chan,            \* messages in flight on the command channel
    exp_chan,            \* messages in flight on the explanation channel
    explanation_rx,      \* explanation_rx.is_some()
    command,             \* cmd_result.command
    is_safe,             \* cmd_result.safe
    exp,                 \* the explanation taken from the channel
    explanation_text,    \* Option<String> kept for the log
    explanation_printed,
    exp_outcome,         \* match arm taken on the explanation channel: none, shown, danger, failed, closed
    result,              \* what run_interactive_impl returned
    keys,                \* key events read so far
    last_key,            \* the last key event read
    term,                \* the terminal: rows, cursor, scroll position
    clipboard,           \* text handed to pbcopy
    log,                 \* entry written by save_log
    resolved,            \* what the Command Resolver produced for this session
    cmd_fetch,           \* how get_command obtained its value, and the value
    exp_requested,       \* an explanation has been requested for this session
    exp_result,          \* what the explanation worker obtained
    events               \* SSE events consumed by the edge worker

\* The daemon processes, the socket file and the connections of their clients.
VARIABLES
    now,                 \* wall clock, in seconds
    socket_path,         \* the daemon whose listener the file SOCKET_PATH names; 0 when absent
    nonblocking_accept,  \* the platform hands accepted streams the listener's O_NONBLOCK
    daemon_gemini_key,   \* gemini_api_key.is_some() of the daemons
    dpc,                 \* run_daemon per daemon: off, bind, loop, read, call, explain, send, exit, done, failed
    start,               \* the wall clock at `let start = Instant::now()`
    last_activity,       \* AtomicU64: seconds since start at the last accept
    shutdown,            \* AtomicBool
    backlog,             \* connections waiting in the listener's queue
    stream,              \* the accepted connection being handled; 0 when none
    request,             \* the request line read from the stream
    response,            \* the IpcResponse handle_request returned
    gemini_client,       \* LazyGemini.client.is_some()
    warmed_up,           \* LazyGemini.warmed_up
    gemini_lock,         \* the Mutex around LazyGemini is held by the main thread
    warmups,             \* calls of GeminiClient::warmup made by get_or_init
    unpinged,            \* the initialised clients the last keep-alive wake-up left without a ping
    keepalive,           \* per keep-alive thread: sleep, ping (shutdown was found unset), exited
    conn,                \* per connection: state, peer daemon, line in flight, lines sent and received
    answered_invalid     \* a daemon has answered a request line that was not valid

\* One bridge operation of a client run in direct mode, and the process it spawns.
VARIABLES
    caller,              \* the module whose function runs: "tui" or "cli"
    operation,           \* get_command or get_explanation: "command" or "explain"
    endpoint,            \* what SOCKET_PATH is to the client when it connects
    exchange,            \* what happens to the request and response lines on the stream
    remote_command,      \* what the Groq API answers, to the daemon or to the client
    remote_explanation,  \* what the Gemini API answers, to the daemon or to the client
    remote_key,          \* the daemon connected to has a Gemini key
    spawn_ok,            \* Command::spawn of the daemon succeeds
    bpc,                 \* position in the operation: call, connected, direct, spawn, returned
    returned,            \* the Result the operation returned
    requests_sent,       \* request lines written to the daemon's stream
    direct_calls,        \* direct HTTP requests made by the client
    spawn_attempts,      \* calls of spawn_daemon_background
    child                \* the spawned process: none, spawned, or where its main ended

\* ---- response parsing (prompt.rs)
VARIABLES
    content,             \* the text of the resolver's first choice (groq.rs)
    parsed,              \* what parse_response returned for it
    cleaned              \* what clean_response returned for it

tui_vars == <<query, source, gemini_api_key, pc, raw_mode, cmd_worker, exp_worker,
              cmd_chan, exp_chan, explanation_rx, command, is_safe, exp,
              explanation_text, explanation_printed, exp_outcome, result, keys,
              last_key, term, clipboard, log, resolved, cmd_fetch, exp_requested,
              exp_result, events>>

daemon_vars == <<now, socket_path, nonblocking_accept, daemon_gemini_key, dpc, start,
                 last_activity, shutdown, backlog, stream, request, response,
                 gemini_client, warmed_up, gemini_lock, warmups, unpinged,
                 keepalive, conn, answered_invalid>>

bridge_vars == <<caller, operation, endpoint, exchange, remote_command, remote_explanation,
                 remote_key, spawn_ok, bpc, returned, requests_sent, direct_calls,
                 spawn_attempts, child>>

prompt_vars == <<content, parsed, cleaned>>

vars == <<tui_vars, daemon_vars, bridge_vars, prompt_vars>>

inputs == <<query, source, gemini_api_key>>
session == <<pc, raw_mode, explanation_rx, command, is_safe, exp, explanation_text,
             explanation_printed, exp_outcome, result, keys, last_key, term,
             clipboard, log>>

NoLog == [command |-> "", explanation |-> NoneExp, written |-> FALSE]
LogEntry(c, e) == [command |-> c, explanation |-> e, written |-> TRUE]
NoFetch == [via |-> "none", wire |-> "ok", value |-> NoCmd]

force_wait == force_wait_of(query)
is_edge_mode == source = "Edge"

Send_to_closed_channel(chan, msg) == Append(chan, msg)

\* Sender::send: the value is queued unless the receiver has been dropped.
Send(chan, msg) == IF pc = "returned" THEN chan ELSE Append(chan, msg)

\* ------------------------------------------------------------ daemon values
Daemons == {1, 2}
Conns == 1 .. MaxConns

Tasks == {"groq", "edge"}

NoResponse == [success |-> FALSE, result |-> None, error |-> None]
NoConn == [state |-> "idle", peer |-> 0, line |-> "none", sent |-> 0, received |-> 0]

\* No daemon has been started and no client has connected.
DaemonOff ==
    /\ now = 0
    /\ socket_path = 0
    /\ dpc = [d \in Daemons |-> "off"]
    /\ start = [d \in Daemons |-> 0]
    /\ last_activity = [d \in Daemons |-> 0]
    /\ shutdown = [d \in Daemons |-> FALSE]
    /\ backlog = [d \in Daemons |-> <<>>]
    /\ stream = [d \in Daemons |-> 0]
    /\ request = [d \in Daemons |-> "none"]
    /\ response = [d \in Daemons |-> NoResponse]
    /\ gemini_client = [d \in Daemons |-> FALSE]
    /\ warmed_up = [d \in Daemons |-> FALSE]
    /\ gemini_lock = [d \in Daemons |-> FALSE]
    /\ warmups = [d \in Daemons |-> 0]
    /\ unpinged = [d \in Daemons |-> {}]
    /\ keepalive = [d \in Daemons |-> [t \in Tasks |-> "sleep"]]
    /\ conn = [c \in Conns |-> NoConn]
    /\ answered_invalid = FALSE

NoReturn == [ok |-> FALSE, value |-> "", error |-> "none"]

NoParse == [state |-> "none", command |-> <<>>, safe |-> FALSE, fallback |-> FALSE]
NoClean == [state |-> "none", text |-> <<>>]

\* No resolver text is being parsed.
PromptOff ==
    /\ content = <<>>
    /\ parsed = NoParse
    /\ cleaned = NoClean

\* No bridge operation runs.
BridgeOff ==
    /\ caller = "tui"
    /\ operation = "command"
    /\ endpoint = "daemon"
    /\ exchange = "ok"
    /\ remote_command = NoCmd
    /\ remote_explanation = NoExpResult
    /\ remote_key = FALSE
    /\ spawn_ok = FALSE
    /\ bpc = "returned"
    /\ returned = NoReturn
    /\ requests_sent = 0
    /\ direct_calls = 0
    /\ spawn_attempts = 0
    /\ child = "none"

Init ==
    /\ BridgeOff
    /\ PromptOff
    /\ query \in Queries
    /\ source \in {"Direct", "Edge"}
    /\ gemini_api_key \in BOOLEAN
    /\ pc = "start"
    /\ raw_mode = FALSE
    /\ cmd_worker = "unspawned"
    /\ exp_worker = "unspawned"
    /\ cmd_chan = <<>>
    /\ exp_chan = <<>>
    /\ explanation_rx = FALSE
    /\ command = ""
    /\ is_safe = FALSE
    /\ exp = NoneExp
    /\ explanation_text = NoneExp
    /\ explanation_printed = FALSE
    /\ exp_outcome = "none"
    /\ result = NoResult
    /\ keys = 0
    /\ last_key = "none"
    /\ \E r \in StartRows : term = InitTerm(r)
    /\ clipboard = ""
    /\ log = NoLog
    /\ resolved = NoCmd
    /\ cmd_fetch = NoFetch
    /\ exp_requested = FALSE
    /\ exp_result = NoExpResult
    /\ events = 0
    /\ nonblocking_accept = FALSE
    /\ daemon_gemini_key = FALSE
    /\ DaemonOff

\* ----------------------------------------------------------------- actions
\* run_interactive_impl up to the wait for the command: spawn the command
\* worker, enable raw mode (which may fail), show "Generating command...".
Start ==
    /\ pc = "start"
    /\ cmd_worker' = "spawned"
    /\ \E raw_ok \in BOOLEAN :
        IF raw_ok
          THEN /\ raw_mode' = TRUE
               /\ term' = DrawGenerating(term)
               /\ pc' = "wait_cmd"
               /\ result' = result
          ELSE /\ raw_mode' = FALSE
               /\ term' = term
               /\ pc' = "returned"
               /\ result' = ErrResult("Terminal error")
    /\ UNCHANGED <<inputs, exp_worker, cmd_chan, exp_chan, explanation_rx, command,
                   is_safe, exp, explanation_text, explanation_printed, exp_outcome,
                   keys, last_key, clipboard, log, resolved, cmd_fetch,
                   exp_requested, exp_result, events>>
    /\ UNCHANGED <<daemon_vars, bridge_vars, prompt_vars>>

\* Direct mode command worker: cmd_tx.send(get_command(&query, &key)).
DirectCommandWorker ==
    /\ source = "Direct"
    /\ cmd_worker = "spawned"
    /\ \E connected \in BOOLEAN, wire \in Wires, groq_out \in ResolverOutcomes :
        /\ (~connected => wire = "ok")
        /\ LET r == get_command(connected, wire, groq_out)
           IN  /\ cmd_chan' = Send(cmd_chan, r)
               /\ cmd_fetch' = [via |-> IF connected THEN "daemon" ELSE "direct",
                                wire |-> wire, value |-> r]
        /\ resolved' = groq_out
    /\ cmd_worker' = "exited"
    /\ UNCHANGED <<inputs, session, exp_worker, exp_chan, exp_requested, exp_result, events>>
    /\ UNCHANGED <<daemon_vars, bridge_vars, prompt_vars>>

\* Edge mode worker: the POST of query_streaming; an HTTP error ends the worker
\* without anything being sent on either channel.
EdgePost ==
    /\ source = "Edge"
    /\ cmd_worker = "spawned"
    /\ exp_requested' = TRUE
    /\ \E http_ok \in BOOLEAN :
        IF http_ok
          THEN /\ cmd_worker' = "streaming"
               /\ cmd_fetch' = cmd_fetch
          ELSE /\ cmd_worker' = "exited"
               /\ cmd_fetch' = [via |-> "edge", wire |-> "ok",
                                value |-> ErrCmd("Edge proxy error")]
    /\ UNCHANGED <<inputs, session, exp_worker, cmd_chan, exp_chan, resolved, exp_result, events>>
    /\ UNCHANGED <<daemon_vars, bridge_vars, prompt_vars>>

\* A "command" event: its data parses to a CommandResult or to a parse error.
EdgeCommandEvent ==
    /\ cmd_worker = "streaming"
    /\ events < MaxEvents
    /\ resolved = NoCmd
    /\ \E r \in {o \in ResolverOutcomes : o.ok} \cup {ErrCmd("Parse error")} :
        /\ cmd_chan' = Send(cmd_chan, r)
        /\ resolved' = r
        /\ cmd_fetch' = [via |-> "edge", wire |-> "ok", value |-> r]
    /\ events' = events + 1
    /\ UNCHANGED <<inputs, session, cmd_worker, exp_worker, exp_chan, exp_requested, exp_result>>
    /\ UNCHANGED <<daemon_vars, bridge_vars, prompt_vars>>

\* An "explanation" event: sent on when its data parses, dropped otherwise.
EdgeExplanationEvent ==
    /\ cmd_worker = "streaming"
    /\ events < MaxEvents
    /\ \/ \E e \in IF exp_result = NoExpResult THEN Explanations ELSE RepeatedExplanations :
                /\ exp_chan' = Send(exp_chan, OkExp(e))
                /\ exp_result' = IF exp_result = NoExpResult THEN OkExp(e) ELSE exp_result
       \/ UNCHANGED <<exp_chan, exp_result>>
    /\ events' = events + 1
    /\ UNCHANGED <<inputs, session, cmd_worker, exp_worker, cmd_chan, resolved, cmd_fetch,
                   exp_requested>>
    /\ UNCHANGED <<daemon_vars, bridge_vars, prompt_vars>>

\* An "error" event: reported on the command channel, the stream is left.
EdgeErrorEvent ==
    /\ cmd_worker = "streaming"
    /\ cmd_chan' = Send(cmd_chan, ErrCmd("Server error"))
    /\ cmd_fetch' = IF cmd_fetch = NoFetch
                      THEN [via |-> "edge", wire |-> "ok", value |-> ErrCmd("Server error")]
                      ELSE cmd_fetch
    /\ cmd_worker' = "exited"
    /\ UNCHANGED <<inputs, session, exp_worker, exp_chan, resolved, exp_requested,
                   exp_result, events>>
    /\ UNCHANGED <<daemon_vars, bridge_vars, prompt_vars>>

\* A "done" event, the end of the stream or a read error: the worker returns
\* and both senders are dropped.
EdgeDone ==
    /\ cmd_worker = "streaming"
    /\ cmd_worker' = "exited"
    /\ UNCHANGED <<inputs, session, exp_worker, cmd_chan, exp_chan, resolved, cmd_fetch,
                   exp_requested, exp_result, events>>
    /\ UNCHANGED <<daemon_vars, bridge_vars, prompt_vars>>

\* Direct mode explanation worker: exp_tx.send(get_explanation(&cmd, &key, s)).
DirectExplainWorker ==
    /\ exp_worker = "running"
    /\ \E connected \in BOOLEAN, wire \in Wires, daemon_key \in BOOLEAN,
          gemini_out \in ExplainerOutcomes :
        /\ (~connected => (wire = "ok" /\ daemon_key))
        /\ LET r == get_explanation(connected, wire, daemon_key, gemini_out)
           IN  /\ exp_chan' = Send(exp_chan, r)
               /\ exp_result' = r
    /\ exp_worker' = "exited"
    /\ UNCHANGED <<inputs, session, cmd_worker, cmd_chan, resolved, cmd_fetch, exp_requested,
                   events>>
    /\ UNCHANGED <<daemon_vars, bridge_vars, prompt_vars>>

\* cmd_rx.recv_timeout returned a value: an error ends the session; a command
\* is auto-executed, or drawn with its prompt (and the reserved region when an
\* explanation channel exists).
RecvCommand ==
    /\ pc = "wait_cmd"
    /\ cmd_chan # <<>>
    /\ cmd_chan' = Tail(cmd_chan)
    /\ LET msg == Head(cmd_chan) IN
        IF ~msg.ok
          THEN /\ raw_mode' = FALSE
               /\ term' = NL(term)
               /\ result' = ErrResult(msg.error)
               /\ pc' = "returned"
               /\ UNCHANGED <<command, is_safe, explanation_rx, exp_worker, exp_requested, log>>
          ELSE /\ command' = msg.command
               /\ is_safe' = msg.safe
               /\ LET auto == auto_execute(msg.safe, force_wait)
                      spawn == spawns_explainer(auto, is_edge_mode, gemini_api_key)
                  IN  /\ exp_worker' = IF spawn THEN "running" ELSE exp_worker
                      /\ exp_requested' = (exp_requested \/ spawn)
                      /\ IF auto
                           THEN /\ term' = DrawAutoExecute(term)
                                /\ raw_mode' = FALSE
                                /\ log' = LogEntry(msg.command, NoneExp)
                                /\ result' = Execute(execute_text(msg.command))
                                /\ pc' = "returned"
                                /\ UNCHANGED explanation_rx
                           ELSE /\ explanation_rx' = (is_edge_mode \/ spawn)
                                /\ term' = DrawLayout(term, explanation_rx')
                                /\ pc' = "loop_exp"
                                /\ UNCHANGED <<raw_mode, log, result>>
    /\ UNCHANGED <<inputs, cmd_worker, exp_chan, exp, explanation_text, explanation_printed,
                   exp_outcome, keys, last_key, clipboard, resolved, cmd_fetch, exp_result,
                   events>>
    /\ UNCHANGED <<daemon_vars, bridge_vars, prompt_vars>>

RecvTimeout_keeps_raw_mode ==
    /\ pc = "wait_cmd"
    /\ cmd_chan = <<>>
    /\ raw_mode' = raw_mode
    /\ term' = NL(term)
    /\ result' = ErrResult("Timeout")
    /\ pc' = "returned"
    /\ UNCHANGED <<inputs, cmd_worker, exp_worker, cmd_chan, exp_chan, explanation_rx, command,
                   is_safe, exp, explanation_text, explanation_printed, exp_outcome, keys,
                   last_key, clipboard, log, resolved, cmd_fetch, exp_requested, exp_result,
                   events>>
    /\ UNCHANGED <<daemon_vars, bridge_vars, prompt_vars>>

\* cmd_rx.recv_timeout returned Err: nothing arrived within 30 seconds, or the
\* worker dropped its sender without sending.
RecvTimeout ==
    /\ pc = "wait_cmd"
    /\ cmd_chan = <<>>
    /\ raw_mode' = FALSE
    /\ term' = NL(term)
    /\ result' = ErrResult("Timeout")
    /\ pc' = "returned"
    /\ UNCHANGED <<inputs, cmd_worker, exp_worker, cmd_chan, exp_chan, explanation_rx, command,
                   is_safe, exp, explanation_text, explanation_printed, exp_outcome, keys,
                   last_key, clipboard, log, resolved, cmd_fetch, exp_requested, exp_result,
                   events>>
    /\ UNCHANGED <<daemon_vars, bridge_vars, prompt_vars>>

\* The sender of the explanation channel has been dropped.
exp_sender_dropped ==
    IF is_edge_mode THEN cmd_worker = "exited" ELSE exp_worker = "exited"

\* First half of a main-loop iteration: rx.try_recv() on the explanation channel.
CheckExplanation ==
    /\ pc = "loop_exp"
    /\ IF polls_explanation(explanation_rx, explanation_printed)
         THEN IF exp_chan # <<>>
                THEN LET msg == Head(exp_chan) IN
                     /\ exp_chan' = Tail(exp_chan)
                     /\ IF msg.ok
                          THEN /\ exp' = msg.exp
                               /\ term' = DrawExplanation(term, msg.exp.n, is_danger_of(msg.exp))
                               /\ IF is_danger_of(msg.exp)
                                    THEN /\ pc' = "danger_loop"
                                         /\ exp_outcome' = "danger"
                                         /\ UNCHANGED <<explanation_text, explanation_printed>>
                                    ELSE /\ pc' = "loop_keys"
                                         /\ exp_outcome' = "shown"
                                         /\ explanation_text' = msg.exp
                                         /\ explanation_printed' = TRUE
                          ELSE /\ term' = DrawFailure(term)
                               /\ explanation_printed' = TRUE
                               /\ exp_outcome' = "failed"
                               /\ pc' = "loop_keys"
                               /\ UNCHANGED <<exp, explanation_text>>
                ELSE /\ pc' = "loop_keys"
                     /\ IF exp_sender_dropped
                          THEN /\ explanation_printed' = after_disconnect(explanation_printed)
                               /\ exp_outcome' = "closed"
                          ELSE UNCHANGED <<explanation_printed, exp_outcome>>
                     /\ UNCHANGED <<exp_chan, exp, explanation_text, term>>
         ELSE /\ pc' = "loop_keys"
              /\ UNCHANGED <<exp_chan, exp, explanation_text, explanation_printed,
                             exp_outcome, term>>
    /\ UNCHANGED <<inputs, raw_mode, cmd_worker, exp_worker, cmd_chan, explanation_rx, command,
                   is_safe, result, keys, last_key, clipboard, log, resolved, cmd_fetch,
                   exp_requested, exp_result, events>>
    /\ UNCHANGED <<daemon_vars, bridge_vars, prompt_vars>>

\* Second half of a main-loop iteration: event::poll(100ms) found nothing.
PollKeysIdle ==
    /\ pc = "loop_keys"
    /\ pc' = "loop_exp"
    /\ UNCHANGED <<inputs, raw_mode, cmd_worker, exp_worker, cmd_chan, exp_chan, explanation_rx,
                   command, is_safe, exp, explanation_text, explanation_printed, exp_outcome,
                   result, keys, last_key, term, clipboard, log, resolved, cmd_fetch,
                   exp_requested, exp_result, events>>
    /\ UNCHANGED <<daemon_vars, bridge_vars, prompt_vars>>

\* Second half of a main-loop iteration: a key event was read.
PollKeys ==
    /\ pc = "loop_keys"
    /\ keys < MaxKeys
    /\ \E k \in KeyEvents :
        /\ last_key' = k
        /\ CASE key_outcome(k) = "execute" ->
                  /\ raw_mode' = FALSE
                  /\ term' = NL(term)
                  /\ log' = LogEntry(command, explanation_text)
                  /\ result' = Execute(execute_text(command))
                  /\ pc' = "returned"
             [] key_outcome(k) = "cancel" ->
                  /\ raw_mode' = FALSE
                  /\ term' = NL(term)
                  /\ result' = Cancel
                  /\ pc' = "returned"
                  /\ log' = log
             [] OTHER ->
                  /\ pc' = "loop_exp"
                  /\ UNCHANGED <<raw_mode, term, log, result>>
    /\ keys' = keys + 1
    /\ UNCHANGED <<inputs, cmd_worker, exp_worker, cmd_chan, exp_chan, explanation_rx, command,
                   is_safe, exp, explanation_text, explanation_printed, exp_outcome, clipboard,
                   resolved, cmd_fetch, exp_requested, exp_result, events>>
    /\ UNCHANGED <<daemon_vars, bridge_vars, prompt_vars>>

\* The inner loop of the DANGER branch: a key event was read.
DangerPoll ==
    /\ pc = "danger_loop"
    /\ keys < MaxKeys
    /\ \E k \in KeyEvents :
        /\ last_key' = k
        /\ CASE danger_key_outcome(k) = "copy" ->
                  /\ clipboard' = command
                  /\ term' = DrawMessage(term, "copied")
                  /\ raw_mode' = FALSE
                  /\ log' = LogEntry(command, exp)
                  /\ result' = Cancel
                  /\ pc' = "returned"
             [] danger_key_outcome(k) = "cancel" ->
                  /\ term' = DrawMessage(term, "cancelled")
                  /\ raw_mode' = FALSE
                  /\ log' = LogEntry(command, exp)
                  /\ result' = Cancel
                  /\ pc' = "returned"
                  /\ clipboard' = clipboard
             [] OTHER ->
                  UNCHANGED <<pc, raw_mode, term, log, result, clipboard>>
    /\ keys' = keys + 1
    /\ UNCHANGED <<inputs, cmd_worker, exp_worker, cmd_chan, exp_chan, explanation_rx, command,
                   is_safe, exp, explanation_text, explanation_printed, exp_outcome,
                   resolved, cmd_fetch, exp_requested, exp_result, events>>
    /\ UNCHANGED <<daemon_vars, bridge_vars, prompt_vars>>

Next ==
    \/ Start
    \/ DirectCommandWorker
    \/ EdgePost
    \/ EdgeCommandEvent
    \/ EdgeExplanationEvent
    \/ EdgeErrorEvent
    \/ EdgeDone
    \/ DirectExplainWorker
    \/ RecvCommand
    \/ RecvTimeout
    \/ CheckExplanation
    \/ PollKeysIdle
    \/ PollKeys
    \/ DangerPoll

Spec == Init /\ [][Next]_vars

\* =================================================================== daemon
\* A request line as the daemon's read_line and serde see it.
ValidLines == {"command", "explain"}
InvalidLines == {"empty", "closed", "not json", "unknown type", "missing field",
                 "unknown style"}
UnreadableLines == {"not utf8"}
Lines == ValidLines \cup InvalidLines \cup UnreadableLines

\* The instants at which the wall clock is observed: the daemon's start, one
\* second later, and one second past the idle threshold: past it for an
\* activity at second 0, exactly on it for an activity at second 1.
Instants == {0, 1, DAEMON_IDLE_TIMEOUT_SECS + 1}

\* What the daemon's Groq and Gemini calls can return.
DaemonGroqOutcomes == {OkCmd("ls -la", TRUE), ErrCmd("HTTP error")}
DaemonGeminiOutcomes ==
    {OkExp([tag |-> "SAFE", mentions_danger |-> FALSE, n |-> 1]),
     OkExp([tag |-> "NONE", mentions_danger |-> FALSE, n |-> 0]),
     ErrExp("Gemini HTTP error")}

\* handle_request when reader.read_line fails.
read_failure == [success |-> FALSE, result |-> None, error |-> Some("Failed to read request")]

\* The line send_response writes when the response cannot be serialised:
\* {"success":false,"error":"Serialize error"}, which has no result member.
serialize_fallback == [success |-> FALSE, result |-> None, error |-> Some("Serialize error")]

\* send_response: the serialised response, or the fallback line.
send_response(resp, serialized) == IF serialized THEN resp ELSE serialize_fallback

\* start.elapsed().as_secs()
elapsed(d) == now - start[d]

idle_timeout_at_threshold(e, last) == e > 0 /\ e - last >= DAEMON_IDLE_TIMEOUT_SECS

\* if elapsed > 0 && elapsed - last > DAEMON_IDLE_TIMEOUT_SECS
idle_timeout(e, last) == e > 0 /\ e - last > DAEMON_IDLE_TIMEOUT_SECS

\* The daemon holds an open listener.
listening(d) == dpc[d] \in {"loop", "read", "call", "explain", "send", "exit"}

warmed_up_if_warm(ok) == ok

\* get_or_init line 53: self.warmed_up = true, whatever client.warmup() returned.
warmed_up_after(ok) == TRUE

\* LazyGemini::get_or_init succeeds: a client exists or can be created.
get_or_init_ok(d) == gemini_client[d] \/ daemon_gemini_key

\* -------------------------------------------------------------- daemon steps
\* IpcServer::new, first statement: let _ = remove_file(SOCKET_PATH).
ServerRemoveStale(d) ==
    /\ dpc[d] = "off"
    /\ \A e \in Daemons : e < d => dpc[e] # "off"
    /\ socket_path' = 0
    /\ dpc' = [dpc EXCEPT ![d] = "bind"]
    /\ UNCHANGED <<now, nonblocking_accept, daemon_gemini_key, start, last_activity, shutdown,
                   backlog, stream, request, response, gemini_client, warmed_up, conn,
                   answered_invalid>>
    /\ UNCHANGED <<gemini_lock, warmups, unpinged, keepalive>>
    /\ UNCHANGED <<tui_vars, bridge_vars, prompt_vars>>

\* IpcServer::new, UnixListener::bind, and run_daemon up to its main loop:
\* bind fails when the path exists; otherwise start, last_activity and
\* shutdown are initialised and the two keep-alive threads are spawned.
ServerBind(d) ==
    /\ dpc[d] = "bind"
    /\ IF socket_path = 0
         THEN /\ socket_path' = d
              /\ dpc' = [dpc EXCEPT ![d] = "loop"]
              /\ start' = [start EXCEPT ![d] = now]
              /\ last_activity' = [last_activity EXCEPT ![d] = 0]
              /\ shutdown' = [shutdown EXCEPT ![d] = FALSE]
         ELSE /\ dpc' = [dpc EXCEPT ![d] = "failed"]
              /\ UNCHANGED <<socket_path, start, last_activity, shutdown>>
    /\ UNCHANGED <<now, nonblocking_accept, daemon_gemini_key, backlog, stream, request,
                   response, gemini_client, warmed_up, conn, answered_invalid>>
    /\ UNCHANGED <<gemini_lock, warmups, unpinged, keepalive>>
    /\ UNCHANGED <<tui_vars, bridge_vars, prompt_vars>>

\* Time passes; the clock's origin is the start of the first daemon.
Tick ==
    /\ dpc[1] \notin {"off", "bind"}
    /\ \E t \in Instants :
        /\ t > now
        /\ now' = t
    /\ UNCHANGED <<socket_path, nonblocking_accept, daemon_gemini_key, dpc, start,
                   last_activity, shutdown, backlog, stream, request, response,
                   gemini_client, warmed_up, conn, answered_invalid>>
    /\ UNCHANGED <<gemini_lock, warmups, unpinged, keepalive>>
    /\ UNCHANGED <<tui_vars, bridge_vars, prompt_vars>>

\* One iteration of the main loop of run_daemon: the idle check, which sets
\* shutdown and leaves the loop; otherwise accept, which stores last_activity
\* when it returns a stream and changes nothing when nothing is pending or
\* listener.accept fails (the connection stays queued).
MainLoop(d) ==
    /\ dpc[d] = "loop"
    /\ IF idle_timeout(elapsed(d), last_activity[d])
         THEN /\ shutdown' = [shutdown EXCEPT ![d] = TRUE]
              /\ dpc' = [dpc EXCEPT ![d] = "exit"]
              /\ UNCHANGED <<socket_path, backlog, conn, unpinged, last_activity, stream>>
         ELSE \E accepted \in BOOLEAN :
                IF accepted /\ backlog[d] # <<>>
                  THEN /\ stream' = [stream EXCEPT ![d] = Head(backlog[d])]
                       /\ backlog' = [backlog EXCEPT ![d] = Tail(backlog[d])]
                       /\ conn' = [conn EXCEPT ![Head(backlog[d])].state = "accepted"]
                       /\ last_activity' = [last_activity EXCEPT ![d] = elapsed(d)]
                       /\ dpc' = [dpc EXCEPT ![d] = "read"]
                       /\ UNCHANGED <<shutdown, socket_path, unpinged>>
                  ELSE UNCHANGED <<shutdown, dpc, socket_path, backlog, conn, last_activity,
                                   stream, unpinged>>
    /\ UNCHANGED <<now, nonblocking_accept, daemon_gemini_key, start, request, response,
                   gemini_client, warmed_up, answered_invalid>>
    /\ UNCHANGED <<gemini_lock, warmups, keepalive>>
    /\ UNCHANGED <<tui_vars, bridge_vars, prompt_vars>>

\* run_daemon returns after its loop: the server is dropped (Drop removes
\* SOCKET_PATH and the listener closes with its queue), main returns and the
\* process ends with its keep-alive threads.
ServerDrop(d) ==
    /\ dpc[d] = "exit"
    /\ dpc' = [dpc EXCEPT ![d] = "done"]
    /\ socket_path' = 0
    /\ backlog' = [backlog EXCEPT ![d] = <<>>]
    /\ conn' = [c \in Conns |->
                  IF conn[c].state = "queued" /\ conn[c].peer = d
                    THEN [conn[c] EXCEPT !.state = "closed"]
                    ELSE conn[c]]
    /\ unpinged' = [unpinged EXCEPT ![d] = {}]
    /\ keepalive' = [keepalive EXCEPT ![d] = [t \in Tasks |-> "exited"]]
    /\ UNCHANGED <<now, nonblocking_accept, daemon_gemini_key, start, last_activity,
                   shutdown, stream, request, response, gemini_client, warmed_up,
                   answered_invalid>>
    /\ UNCHANGED <<gemini_lock, warmups>>
    /\ UNCHANGED <<tui_vars, bridge_vars, prompt_vars>>

\* handle_request up to the parsed request: read_line on the accepted stream,
\* then serde_json::from_str. With nothing written yet the read waits, or
\* fails at once where the accepted stream is non-blocking.
ReadRequest(d) ==
    /\ dpc[d] = "read"
    /\ LET line == conn[stream[d]].line IN
        CASE line = "none" ->
                /\ nonblocking_accept
                /\ response' = [response EXCEPT ![d] = read_failure]
                /\ dpc' = [dpc EXCEPT ![d] = "send"]
                /\ UNCHANGED <<request, answered_invalid>>
          [] line \in UnreadableLines ->
                /\ response' = [response EXCEPT ![d] = read_failure]
                /\ dpc' = [dpc EXCEPT ![d] = "send"]
                /\ answered_invalid' = TRUE
                /\ UNCHANGED request
          [] line \in ValidLines ->
                /\ request' = [request EXCEPT ![d] = line]
                /\ dpc' = [dpc EXCEPT ![d] = "call"]
                /\ UNCHANGED <<response, answered_invalid>>
          [] OTHER ->
                /\ response' = [response EXCEPT ![d] =
                                  handle_request(line, NoCmd, FALSE, NoExpResult)]
                /\ dpc' = [dpc EXCEPT ![d] = "send"]
                /\ answered_invalid' = TRUE
                /\ UNCHANGED request
    /\ conn' = [conn EXCEPT ![stream[d]].line = "consumed"]
    /\ UNCHANGED <<now, socket_path, nonblocking_accept, daemon_gemini_key, start,
                   last_activity, shutdown, backlog, stream, gemini_client, warmed_up>>
    /\ UNCHANGED <<gemini_lock, warmups, unpinged, keepalive>>
    /\ UNCHANGED <<tui_vars, bridge_vars, prompt_vars>>

\* handle_request from the parsed request on. Command: groq.query. Explain:
\* gemini.lock(), then get_or_init, which creates the client when there is a
\* key and none exists yet and warms it up unless warmed_up is set; without
\* a client the error is the response and the guard is dropped, else the
\* guard is held into the remote call.
CallBackend(d) ==
    /\ dpc[d] = "call"
    /\ IF request[d] = "command"
         THEN /\ \E g \in DaemonGroqOutcomes :
                    response' = [response EXCEPT ![d] =
                                    handle_request("command", g, daemon_gemini_key, NoExpResult)]
              /\ dpc' = [dpc EXCEPT ![d] = "send"]
              /\ UNCHANGED <<gemini_client, warmed_up, warmups, gemini_lock>>
         ELSE /\ gemini_client' = [gemini_client EXCEPT ![d] = get_or_init_ok(d)]
              /\ IF get_or_init_ok(d)
                   THEN /\ IF warmed_up[d]
                             THEN UNCHANGED <<warmed_up, warmups>>
                             ELSE /\ \E ok \in BOOLEAN :
                                        warmed_up' = [warmed_up EXCEPT ![d] = warmed_up_after(ok)]
                                  /\ warmups' = [warmups EXCEPT ![d] = @ + 1]
                        /\ gemini_lock' = [gemini_lock EXCEPT ![d] = TRUE]
                        /\ dpc' = [dpc EXCEPT ![d] = "explain"]
                        /\ UNCHANGED response
                   ELSE /\ response' = [response EXCEPT ![d] =
                                          handle_request("explain", NoCmd, FALSE, NoExpResult)]
                        /\ dpc' = [dpc EXCEPT ![d] = "send"]
                        /\ UNCHANGED <<warmed_up, warmups, gemini_lock>>
    /\ UNCHANGED <<now, socket_path, nonblocking_accept, daemon_gemini_key, start,
                   last_activity, shutdown, backlog, stream, request, conn, answered_invalid>>
    /\ UNCHANGED <<unpinged, keepalive>>
    /\ UNCHANGED <<tui_vars, bridge_vars, prompt_vars>>

\* client.explain(&command, style) under the guard taken by CallBackend; the
\* guard is dropped when the match arm ends, with the response built.
ExplainCall(d) ==
    /\ dpc[d] = "explain"
    /\ \E x \in DaemonGeminiOutcomes :
            response' = [response EXCEPT ![d] = handle_request("explain", NoCmd, TRUE, x)]
    /\ gemini_lock' = [gemini_lock EXCEPT ![d] = FALSE]
    /\ dpc' = [dpc EXCEPT ![d] = "send"]
    /\ UNCHANGED <<now, socket_path, nonblocking_accept, daemon_gemini_key, start,
                   last_activity, shutdown, backlog, stream, request, gemini_client,
                   warmed_up, conn, answered_invalid>>
    /\ UNCHANGED <<warmups, unpinged, keepalive>>
    /\ UNCHANGED <<tui_vars, bridge_vars, prompt_vars>>

GroqKeepAlive_counts_as_activity(d) ==
    /\ listening(d)
    /\ ~shutdown[d]
    /\ unpinged' = [unpinged EXCEPT ![d] = IF gemini_client[d] THEN {"gemini"} ELSE {}]
    /\ last_activity' = [last_activity EXCEPT ![d] = elapsed(d)]
    /\ UNCHANGED <<now, socket_path, nonblocking_accept, daemon_gemini_key, dpc, start,
                   shutdown, backlog, stream, request, response, gemini_client,
                   warmed_up, conn, answered_invalid>>
    /\ UNCHANGED <<gemini_lock, warmups, keepalive>>
    /\ UNCHANGED <<tui_vars, bridge_vars, prompt_vars>>

\* The Groq keep-alive thread wakes from its sleep of KEEP_ALIVE_INTERVAL_SECS,
\* finds shutdown unset and calls groq.warmup(), whose error is only logged.
\* It holds the Groq client alone: a Gemini client that exists gets no ping.
GroqKeepAlive(d) ==
    /\ listening(d)
    /\ ~shutdown[d]
    /\ unpinged' = [unpinged EXCEPT ![d] = IF gemini_client[d] THEN {"gemini"} ELSE {}]
    /\ UNCHANGED <<now, socket_path, nonblocking_accept, daemon_gemini_key, dpc, start,
                   last_activity, shutdown, backlog, stream, request, response,
                   gemini_client, warmed_up, conn, answered_invalid>>
    /\ UNCHANGED <<gemini_lock, warmups, keepalive>>
    /\ UNCHANGED <<tui_vars, bridge_vars, prompt_vars>>

\* The Edge keep-alive thread calls edge.warmup(), at its start and then
\* after each sleep of KEEP_ALIVE_INTERVAL_SECS that finds shutdown unset. It
\* holds the EdgeClient it created and nothing else.
EdgeKeepAlive(d) ==
    /\ listening(d)
    /\ ~shutdown[d]
    /\ unpinged' = [unpinged EXCEPT ![d] = IF gemini_client[d] THEN {"gemini"} ELSE {}]
    /\ UNCHANGED <<now, socket_path, nonblocking_accept, daemon_gemini_key, dpc, start,
                   last_activity, shutdown, backlog, stream, request, response,
                   gemini_client, warmed_up, conn, answered_invalid>>
    /\ UNCHANGED <<gemini_lock, warmups, keepalive>>
    /\ UNCHANGED <<tui_vars, bridge_vars, prompt_vars>>

SendResponse_to_waiting_client(d) ==
    /\ dpc[d] = "send"
    /\ \E c \in Conns :
        /\ conn[c].peer = d
        /\ conn[c].state \in {"queued", "accepted"}
        /\ conn' = [conn EXCEPT ![c].received = @ + 1, ![stream[d]].state = "closed"]
    /\ stream' = [stream EXCEPT ![d] = 0]
    /\ request' = [request EXCEPT ![d] = "none"]
    /\ response' = [response EXCEPT ![d] = NoResponse]
    /\ dpc' = [dpc EXCEPT ![d] = "loop"]
    /\ UNCHANGED <<now, socket_path, nonblocking_accept, daemon_gemini_key, start,
                   last_activity, shutdown, backlog, gemini_client, warmed_up,
                   answered_invalid>>
    /\ UNCHANGED <<gemini_lock, warmups, unpinged, keepalive>>
    /\ UNCHANGED <<tui_vars, bridge_vars, prompt_vars>>

SendResponse_writes_nothing(d) ==
    /\ dpc[d] = "send"
    /\ LET c == stream[d] IN
        conn' = [conn EXCEPT ![c].state = "closed"]
    /\ stream' = [stream EXCEPT ![d] = 0]
    /\ request' = [request EXCEPT ![d] = "none"]
    /\ response' = [response EXCEPT ![d] = NoResponse]
    /\ dpc' = [dpc EXCEPT ![d] = "loop"]
    /\ UNCHANGED <<now, socket_path, nonblocking_accept, daemon_gemini_key, start,
                   last_activity, shutdown, backlog, gemini_client, warmed_up,
                   answered_invalid>>
    /\ UNCHANGED <<gemini_lock, warmups, unpinged, keepalive>>
    /\ UNCHANGED <<tui_vars, bridge_vars, prompt_vars>>

\* send_response, then the stream is dropped and the loop sleeps 10 ms.
SendResponse(d) ==
    /\ dpc[d] = "send"
    /\ LET c == stream[d] IN
        conn' = [conn EXCEPT ![c].received = @ + 1, ![c].state = "closed"]
    /\ stream' = [stream EXCEPT ![d] = 0]
    /\ request' = [request EXCEPT ![d] = "none"]
    /\ response' = [response EXCEPT ![d] = NoResponse]
    /\ dpc' = [dpc EXCEPT ![d] = "loop"]
    /\ UNCHANGED <<now, socket_path, nonblocking_accept, daemon_gemini_key, start,
                   last_activity, shutdown, backlog, gemini_client, warmed_up,
                   answered_invalid>>
    /\ UNCHANGED <<gemini_lock, warmups, unpinged, keepalive>>
    /\ UNCHANGED <<tui_vars, bridge_vars, prompt_vars>>

\* ------------------------------------------------------------- client steps
\* UnixStream::connect(SOCKET_PATH): queued at the listener the path names,
\* refused when the path is absent.
Connect(c) ==
    /\ conn[c].state = "idle"
    /\ \A b \in Conns : b < c => conn[b].state # "idle"
    /\ IF socket_path # 0 /\ listening(socket_path)
         THEN /\ conn' = [conn EXCEPT ![c].state = "queued", ![c].peer = socket_path]
              /\ backlog' = [backlog EXCEPT ![socket_path] = Append(@, c)]
         ELSE /\ conn' = [conn EXCEPT ![c].state = "refused"]
              /\ UNCHANGED backlog
    /\ UNCHANGED <<now, socket_path, nonblocking_accept, daemon_gemini_key, dpc, start,
                   last_activity, shutdown, stream, request, response, gemini_client,
                   warmed_up, answered_invalid>>
    /\ UNCHANGED <<gemini_lock, warmups, unpinged, keepalive>>
    /\ UNCHANGED <<tui_vars, bridge_vars, prompt_vars>>

\* The client writes its request line, or closes its end without one. What
\* it wrote becomes visible to the daemon when the daemon reads the stream, so
\* the write is placed after the accept.
Write(c) ==
    /\ conn[c].state = "accepted"
    /\ conn[c].line = "none"
    /\ \E l \in Lines : conn' = [conn EXCEPT ![c].line = l, ![c].sent = @ + 1]
    /\ UNCHANGED <<now, socket_path, nonblocking_accept, daemon_gemini_key, dpc, start,
                   last_activity, shutdown, backlog, stream, request, response,
                   gemini_client, warmed_up, answered_invalid>>
    /\ UNCHANGED <<gemini_lock, warmups, unpinged, keepalive>>
    /\ UNCHANGED <<tui_vars, bridge_vars, prompt_vars>>

\* IpcClient::send_request called again on a stream whose response has been
\* read: the client writes a second request line. The daemon has dropped its
\* end of the stream, so the line reaches nobody.
Reuse(c) ==
    /\ conn[c].state = "closed"
    /\ conn[c].sent = 1
    /\ conn[c].received = 1
    /\ conn' = [conn EXCEPT ![c].sent = 2]
    /\ UNCHANGED <<now, socket_path, nonblocking_accept, daemon_gemini_key, dpc, start,
                   last_activity, shutdown, backlog, stream, request, response,
                   gemini_client, warmed_up, answered_invalid>>
    /\ UNCHANGED <<gemini_lock, warmups, unpinged, keepalive>>
    /\ UNCHANGED <<tui_vars, bridge_vars, prompt_vars>>

\* No interactive session runs beside the daemons.
SessionOff ==
    /\ query = "list files"
    /\ source = "Direct"
    /\ gemini_api_key = FALSE
    /\ pc = "start"
    /\ raw_mode = FALSE
    /\ cmd_worker = "unspawned"
    /\ exp_worker = "unspawned"
    /\ cmd_chan = <<>>
    /\ exp_chan = <<>>
    /\ explanation_rx = FALSE
    /\ command = ""
    /\ is_safe = FALSE
    /\ exp = NoneExp
    /\ explanation_text = NoneExp
    /\ explanation_printed = FALSE
    /\ exp_outcome = "none"
    /\ result = NoResult
    /\ keys = 0
    /\ last_key = "none"
    /\ term = InitTerm(0)
    /\ clipboard = ""
    /\ log = NoLog
    /\ resolved = NoCmd
    /\ cmd_fetch = NoFetch
    /\ exp_requested = FALSE
    /\ exp_result = NoExpResult
    /\ events = 0

DaemonInit ==
    /\ SessionOff
    /\ BridgeOff
    /\ PromptOff
    /\ nonblocking_accept \in BOOLEAN
    /\ daemon_gemini_key \in BOOLEAN
    /\ DaemonOff

DaemonNext ==
    \/ Tick
    \/ \E d \in Daemons :
        \/ ServerRemoveStale(d)
        \/ ServerBind(d)
        \/ MainLoop(d)
        \/ ServerDrop(d)
        \/ ReadRequest(d)
        \/ CallBackend(d)
        \/ ExplainCall(d)
        \/ GroqKeepAlive(d)
        \/ EdgeKeepAlive(d)
        \/ SendResponse(d)
    \/ \E c \in Conns :
        \/ Connect(c)
        \/ Write(c)
        \/ Reuse(c)

DaemonSpec == DaemonInit /\ [][DaemonNext]_vars

\* The daemon threads keep running while they can take a step, and time
\* goes on; clients are under no obligation.
DaemonFairSpec ==
    /\ DaemonSpec
    /\ WF_vars(Tick)
    /\ \A d \in Daemons :
        /\ WF_vars(ServerBind(d))
        /\ WF_vars(MainLoop(d))
        /\ WF_vars(ServerDrop(d))
        /\ WF_vars(ReadRequest(d))
        /\ WF_vars(CallBackend(d))
        /\ WF_vars(ExplainCall(d))
        /\ WF_vars(GroqKeepAlive(d))
        /\ WF_vars(EdgeKeepAlive(d))
        /\ WF_vars(SendResponse(d))

\* ------------------------------------------- keep-alive threads, step by step
\* The flag and the threads belong to one process: one daemon is followed.
KeepAliveDaemons == {1}

KeepAliveWake_ignores_shutdown(d, t) ==
    /\ listening(d)
    /\ keepalive[d][t] = "sleep"
    /\ keepalive' = [keepalive EXCEPT ![d][t] = "ping"]
    /\ UNCHANGED <<now, socket_path, nonblocking_accept, daemon_gemini_key, dpc, start,
                   last_activity, shutdown, backlog, stream, request, response,
                   gemini_client, warmed_up, conn, answered_invalid>>
    /\ UNCHANGED <<gemini_lock, warmups, unpinged>>
    /\ UNCHANGED <<tui_vars, bridge_vars, prompt_vars>>

\* A keep-alive thread returns from thread::sleep and loads shutdown: set,
\* it breaks out of its loop; unset, it goes on to the warmup call.
KeepAliveWake(d, t) ==
    /\ listening(d)
    /\ keepalive[d][t] = "sleep"
    /\ keepalive' = [keepalive EXCEPT ![d][t] = IF shutdown[d] THEN "exited" ELSE "ping"]
    /\ UNCHANGED <<now, socket_path, nonblocking_accept, daemon_gemini_key, dpc, start,
                   last_activity, shutdown, backlog, stream, request, response,
                   gemini_client, warmed_up, conn, answered_invalid>>
    /\ UNCHANGED <<gemini_lock, warmups, unpinged>>
    /\ UNCHANGED <<tui_vars, bridge_vars, prompt_vars>>

\* The thread calls warmup() on its client, logs a failure, and sleeps again.
KeepAlivePing(d, t) ==
    /\ listening(d)
    /\ keepalive[d][t] = "ping"
    /\ keepalive' = [keepalive EXCEPT ![d][t] = "sleep"]
    /\ unpinged' = [unpinged EXCEPT ![d] = IF gemini_client[d] THEN {"gemini"} ELSE {}]
    /\ UNCHANGED <<now, socket_path, nonblocking_accept, daemon_gemini_key, dpc, start,
                   last_activity, shutdown, backlog, stream, request, response,
                   gemini_client, warmed_up, conn, answered_invalid>>
    /\ UNCHANGED <<gemini_lock, warmups>>
    /\ UNCHANGED <<tui_vars, bridge_vars, prompt_vars>>

\* The daemon machine with each keep-alive thread taking its flag check and
\* its ping as separate steps.
KeepAliveNext ==
    \/ Tick
    \/ \E d \in KeepAliveDaemons :
        \/ ServerRemoveStale(d)
        \/ ServerBind(d)
        \/ MainLoop(d)
        \/ ServerDrop(d)
        \/ ReadRequest(d)
        \/ CallBackend(d)
        \/ ExplainCall(d)
        \/ SendResponse(d)
        \/ \E t \in Tasks :
            \/ KeepAliveWake(d, t)
            \/ KeepAlivePing(d, t)
    \/ \E c \in Conns :
        \/ Connect(c)
        \/ Write(c)
        \/ Reuse(c)

KeepAliveSpec == DaemonInit /\ [][KeepAliveNext]_vars

\* ------------------------------------------------------------ client bridge
Endpoints == {"daemon", "stale", "absent", "denied"}

try_connect_finds_file(e) == e \in {"daemon", "stale"}

\* IpcClient::try_connect: UnixStream::connect(SOCKET_PATH).ok().
try_connect(e) == e = "daemon"

\* cli.rs get_command: the daemon's answer when try_connect succeeds, else
\* groq.query(query)? and the command of its result.
cli_get_command(connected, wire, groq_out) ==
    IF connected
      THEN send_request(wire, handle_request("command", groq_out, FALSE, NoExpResult), "")
      ELSE IF groq_out.ok
        THEN [ok |-> TRUE, value |-> groq_out.command, error |-> ""]
        ELSE [ok |-> FALSE, value |-> "", error |-> groq_out.error]

\* cli.rs get_explanation: the daemon's answer when try_connect succeeds,
\* else gemini.explain(command, style).
cli_get_explanation(connected, wire, daemon_key, gemini_out) ==
    IF connected
      THEN send_request(wire, handle_request("explain", NoCmd, daemon_key, gemini_out), NoneExp)
      ELSE IF gemini_out.ok
        THEN [ok |-> TRUE, value |-> gemini_out.exp, error |-> ""]
        ELSE [ok |-> FALSE, value |-> NoneExp, error |-> gemini_out.error]

\* What the running operation returns, with and without a connection.
bridge_result(connected) ==
    CASE caller = "tui" /\ operation = "command" ->
            get_command(connected, exchange, remote_command)
      [] caller = "tui" /\ operation = "explain" ->
            get_explanation(connected, exchange, remote_key, remote_explanation)
      [] caller = "cli" /\ operation = "command" ->
            cli_get_command(connected, exchange, remote_command)
      [] OTHER ->
            cli_get_explanation(connected, exchange, remote_key, remote_explanation)

\* The operations that call spawn_daemon_background after their direct call:
\* cli.rs get_command alone, and only past the `?` of groq.query.
spawns_daemon(c, o, direct_ok) == c = "cli" /\ o = "command" /\ direct_ok

\* The command line spawn_daemon_background gives the new process.
SpawnedArgs == [subcommand |-> FALSE, local |-> FALSE, daemon |-> TRUE, has_query |-> FALSE]

\* main, run_local_mode and run_edge_mode up to the point where each hands
\* over or exits; groq_key is GROQ_API_KEY being set and not empty.
main(args, groq_key) ==
    IF args.subcommand THEN "subcommand"
    ELSE IF args.local
      THEN IF ~groq_key THEN "exit: GROQ_API_KEY not set"
           ELSE IF args.daemon THEN "run_daemon"
           ELSE "local client"
      ELSE IF ~args.has_query THEN "exit: usage"
           ELSE "edge client"

\* if let Some(stream) = IpcClient::try_connect()
TryConnect ==
    /\ bpc = "call"
    /\ bpc' = IF try_connect(endpoint) THEN "connected" ELSE "direct"
    /\ UNCHANGED <<caller, operation, endpoint, exchange, remote_command, remote_explanation,
                   remote_key, spawn_ok, returned, requests_sent, direct_calls,
                   spawn_attempts, child>>
    /\ UNCHANGED <<tui_vars, daemon_vars, prompt_vars>>

\* return IpcClient::send_request(&mut stream, &request)
SendRequest ==
    /\ bpc = "connected"
    /\ requests_sent' = requests_sent + 1
    /\ returned' = bridge_result(TRUE)
    /\ bpc' = "returned"
    /\ UNCHANGED <<caller, operation, endpoint, exchange, remote_command, remote_explanation,
                   remote_key, spawn_ok, direct_calls, spawn_attempts, child>>
    /\ UNCHANGED <<tui_vars, daemon_vars, prompt_vars>>

\* The direct HTTP request of the client; the function returns its result
\* unless it goes on to spawn_daemon_background.
DirectCall ==
    /\ bpc = "direct"
    /\ direct_calls' = direct_calls + 1
    /\ returned' = bridge_result(FALSE)
    /\ bpc' = IF spawns_daemon(caller, operation, bridge_result(FALSE).ok)
                THEN "spawn" ELSE "returned"
    /\ UNCHANGED <<caller, operation, endpoint, exchange, remote_command, remote_explanation,
                   remote_key, spawn_ok, requests_sent, spawn_attempts, child>>
    /\ UNCHANGED <<tui_vars, daemon_vars, prompt_vars>>

\* spawn_daemon_background: `let _ = Command::new(&exe).arg("--daemon")...spawn()`.
SpawnDaemonBackground ==
    /\ bpc = "spawn"
    /\ spawn_attempts' = spawn_attempts + 1
    /\ child' = IF spawn_ok THEN "spawned" ELSE "none"
    /\ bpc' = "returned"
    /\ UNCHANGED <<caller, operation, endpoint, exchange, remote_command, remote_explanation,
                   remote_key, spawn_ok, returned, requests_sent, direct_calls>>
    /\ UNCHANGED <<tui_vars, daemon_vars, prompt_vars>>

\* The spawned process runs main with the parent's environment: the parent
\* ran in direct mode, so GROQ_API_KEY is set.
ChildMain ==
    /\ child = "spawned"
    /\ child' = main(SpawnedArgs, TRUE)
    /\ UNCHANGED <<caller, operation, endpoint, exchange, remote_command, remote_explanation,
                   remote_key, spawn_ok, bpc, returned, requests_sent, direct_calls,
                   spawn_attempts>>
    /\ UNCHANGED <<tui_vars, daemon_vars, prompt_vars>>

BridgeInit ==
    /\ SessionOff
    /\ PromptOff
    /\ nonblocking_accept = FALSE
    /\ daemon_gemini_key = FALSE
    /\ DaemonOff
    /\ caller \in {"tui", "cli"}
    /\ operation \in {"command", "explain"}
    /\ endpoint \in Endpoints
    /\ exchange \in BridgeWires
    /\ remote_command \in DaemonGroqOutcomes
    /\ remote_explanation \in DaemonGeminiOutcomes
    /\ remote_key \in BOOLEAN
    /\ spawn_ok \in BOOLEAN
    /\ bpc = "call"
    /\ returned = NoReturn
    /\ requests_sent = 0
    /\ direct_calls = 0
    /\ spawn_attempts = 0
    /\ child = "none"

BridgeNext ==
    \/ TryConnect
    \/ SendRequest
    \/ DirectCall
    \/ SpawnDaemonBackground
    \/ ChildMain

BridgeSpec == BridgeInit /\ [][BridgeNext]_vars

\* ========================================================= response parsing
\* prompt.rs works on the characters of the resolver's text. A text is a
\* sequence of characters; a JSON value is kept as one element of the
\* sequence, since only serde_json looks inside it.
MaxParts == 3

\* The grave accent U+0060, three of which make a markdown fence.
Backtick == "U+0060"

Fence == <<Backtick, Backtick, Backtick>>
FenceJson == <<Backtick, Backtick, Backtick, "j", "s", "o", "n">>
FenceBash == <<Backtick, Backtick, Backtick, "b", "a", "s", "h">>
FenceSh == <<Backtick, Backtick, Backtick, "s", "h">>
Newline == <<"\n">>
CommandColon == <<"c", "o", "m", "m", "a", "n", "d", ":">>
TheCommandIs == <<"t", "h", "e", " ", "c", "o", "m", "m", "a", "n", "d", " ", "i", "s", ":">>

\* JSON values the resolver may answer with.
ObjSafe == "{\"command\":\"ls\",\"safe\":true}"
ObjUnsafe == "{\"command\":\"rm\",\"safe\":false}"
ObjNoSafe == "{\"command\":\"ls\"}"
ArrSafe == "[\"rm\",true]"
JsonValues == {ObjSafe, ObjUnsafe, ObjNoSafe, ArrSafe}

\* The pieces resolver texts are put together from.
Tokens ==
    { Fence,
      FenceBash \o Newline,
      <<Backtick, Backtick, Backtick, "B", "A", "S", "H">>,
      FenceSh \o Newline,
      FenceJson \o Newline,
      Newline \o Fence,
      <<" ">>,
      <<"l", "s">>,
      <<"C", "o", "m", "m", "a", "n", "d", ":", " ">>,
      <<"T", "h", "e", " ", "C", "o", "m", "m", "a", "n", "d", " ", "I", "s", ":">>,
      <<ObjSafe>>, <<ObjUnsafe>>, <<ObjNoSafe>>, <<ArrSafe>> }

RECURSIVE concat(_)
concat(parts) == IF parts = <<>> THEN <<>> ELSE Head(parts) \o concat(Tail(parts))

Contents == {concat(parts) : parts \in UNION {[1..n -> Tokens] : n \in 0..MaxParts}}

\* str::starts_with, str::ends_with, &s[n..], &s[..s.len() - n]
starts_with(s, p) == Len(s) >= Len(p) /\ SubSeq(s, 1, Len(p)) = p
ends_with(s, p) == Len(s) >= Len(p) /\ SubSeq(s, Len(s) - Len(p) + 1, Len(s)) = p
skip(s, n) == SubSeq(s, n + 1, Len(s))
drop_last(s, n) == SubSeq(s, 1, Len(s) - n)

is_whitespace(c) == c \in {" ", "\n"}

RECURSIVE trim_start(_)
trim_start(s) ==
    IF s # <<>> /\ is_whitespace(Head(s)) THEN trim_start(Tail(s)) ELSE s

RECURSIVE trim_end(_)
trim_end(s) ==
    IF s # <<>> /\ is_whitespace(s[Len(s)]) THEN trim_end(drop_last(s, 1)) ELSE s

trim(s) == trim_end(trim_start(s))

\* str::trim_start_matches and str::trim_end_matches remove every repetition.
RECURSIVE trim_start_matches(_, _)
trim_start_matches(s, p) ==
    IF starts_with(s, p) THEN trim_start_matches(skip(s, Len(p)), p) ELSE s

RECURSIVE trim_end_matches(_, _)
trim_end_matches(s, p) ==
    IF ends_with(s, p) THEN trim_end_matches(drop_last(s, Len(p)), p) ELSE s

lowercase(c) ==
    CASE c = "A" -> "a" [] c = "B" -> "b" [] c = "C" -> "c" [] c = "H" -> "h"
      [] c = "I" -> "i" [] c = "S" -> "s" [] c = "T" -> "t" [] OTHER -> c

\* String::to_lowercase on a text.
lowercased(s) == [i \in 1..Len(s) |-> lowercase(s[i])]

\* serde_json::from_str::<CommandResult>: white space around the value is
\* skipped, anything else around it is an error. The derived Deserialize reads
\* a map with both fields, and also a sequence of the fields in order; a
\* missing field is an error.
NotACommandResult == [ok |-> FALSE, command |-> <<>>, safe |-> FALSE]
from_str(json_str) ==
    LET v == trim(json_str)
    IN  IF Len(v) # 1 THEN NotACommandResult
        ELSE CASE v[1] = ObjSafe -> [ok |-> TRUE, command |-> <<"l", "s">>, safe |-> TRUE]
               [] v[1] = ObjUnsafe -> [ok |-> TRUE, command |-> <<"r", "m">>, safe |-> FALSE]
               [] v[1] = ArrSafe -> [ok |-> TRUE, command |-> <<"r", "m">>, safe |-> TRUE]
               [] OTHER -> NotACommandResult

\* for prefix in [fence bash \n, fence bash, fence sh \n, fence sh, fence \n, fence]
CodeBlockPrefixes ==
    << FenceBash \o Newline, FenceBash, FenceSh \o Newline, FenceSh, Fence \o Newline, Fence >>

RECURSIVE strip_code_block_prefix(_, _)
strip_code_block_prefix(s, i) ==
    IF i > Len(CodeBlockPrefixes) THEN s
    ELSE IF starts_with(lowercased(s), CodeBlockPrefixes[i])
         THEN skip(s, Len(CodeBlockPrefixes[i]))
         ELSE strip_code_block_prefix(s, i + 1)

\* if s.ends_with(\n fence) { s[..s.len() - 4] } else if s.ends_with(fence) { s[..s.len() - 3] }
strip_trailing_code_block(s) ==
    IF ends_with(s, Newline \o Fence) THEN drop_last(s, 4)
    ELSE IF ends_with(s, Fence) THEN drop_last(s, 3)
    ELSE s

strip_command_prefix_only_short(s) ==
    IF starts_with(lowercased(s), CommandColon) THEN trim_start(skip(s, 8)) ELSE s

\* if lower.starts_with("command:") { s[8..].trim_start() }
\* else if lower.starts_with("the command is:") { s[15..].trim_start() }
strip_command_prefix(s) ==
    LET lower == lowercased(s)
    IN  IF starts_with(lower, CommandColon) THEN trim_start(skip(s, 8))
        ELSE IF starts_with(lower, TheCommandIs) THEN trim_start(skip(s, 15))
        ELSE s

clean_response_legacy(text) ==
    trim(strip_command_prefix(
            strip_trailing_code_block(
                strip_code_block_prefix(trim(text), 1))))

\* parse_response always returns Ok; the field fallback records that the text did not
\* deserialize and the command came from clean_response_legacy.
parse_response(text) ==
    LET s == trim(text)
        json_str == IF starts_with(s, Fence)
                    THEN trim(trim_end_matches(
                                trim_start_matches(trim_start_matches(s, FenceJson), Fence),
                                Fence))
                    ELSE s
        r == from_str(json_str)
    IN  IF r.ok
        THEN [state |-> "ok", command |-> r.command, safe |-> r.safe,
              fallback |-> FALSE]
        ELSE [state |-> "ok", command |-> clean_response_legacy(text), safe |-> FALSE,
              fallback |-> TRUE]

\* parse_response(text).map(|r| r.command).unwrap_or_else(|_| text.trim())
clean_response(text) ==
    LET r == parse_response(text)
    IN  IF r.state = "ok" THEN r.command ELSE trim(text)

\* GroqClient::query hands the first choice's text to parse_response.
ParseResponse ==
    /\ parsed.state = "none"
    /\ parsed' = parse_response(content)
    /\ UNCHANGED <<content, cleaned>>
    /\ UNCHANGED <<tui_vars, daemon_vars, bridge_vars>>

CleanResponse ==
    /\ cleaned.state = "none"
    /\ cleaned' = [state |-> "done", text |-> clean_response(content)]
    /\ UNCHANGED <<content, parsed>>
    /\ UNCHANGED <<tui_vars, daemon_vars, bridge_vars>>

PromptInit ==
    /\ SessionOff
    /\ BridgeOff
    /\ nonblocking_accept = FALSE
    /\ daemon_gemini_key = FALSE
    /\ DaemonOff
    /\ content \in Contents
    /\ parsed = NoParse
    /\ cleaned = NoClean

PromptNext ==
    \/ ParseResponse
    \/ CleanResponse

PromptSpec == PromptInit /\ [][PromptNext]_vars

\* ------------------------------------------------------------------ claims
\* The command has been drawn with its prompt (lines 207-223).
shown == term.cmd_row >= 0

\* The session returned Execute without having drawn a prompt.
auto_executed == result.kind = "Execute" /\ ~shown

\* The session ended in Executed or Cancelled.
terminal == result.kind \in {"Execute", "Cancel"}

\* The control thread is in its main loop.
in_main_loop == pc \in {"loop_exp", "loop_keys"}

\* Some row of the terminal shows the command.
command_visible(t) == \E r \in Rows : t.rows[r] \in {Cell("cmd"), Cell("cmd_red")}

\* C1: in a session that showed its command and whose explanation carries the
\* DANGER tag, run_interactive never returns TuiResult::Execute, whatever the
\* order of key events and of the arrival of the explanation.
C1_DangerNeverExecuted ==
    (shown /\ exp_result.ok /\ exp_result.exp.tag = "DANGER") => result.kind # "Execute"

\* C2: when the resolved command has safe=false, Execute is returned only by a
\* step that reads Enter after the command was shown; never with zero keys.
C2_UnsafeNeedsEnter ==
    [][(resolved.ok /\ ~resolved.safe /\ result.kind # "Execute" /\ result'.kind = "Execute")
        => (shown /\ keys' = keys + 1 /\ last_key' = "Enter")]_vars

C2_Witness ==
    /\ resolved.ok /\ ~resolved.safe
    /\ result = Execute(resolved.command)
    /\ last_key = "Enter"
    /\ exp_outcome = "none"

\* C3: once the session has taken a command the resolver marked safe=true, and
\* the query has no "explain", the session is Executed with zero key events,
\* whichever way the command was resolved.
C3_SafeAutoExecutes ==
    (pc \notin {"start", "wait_cmd"} /\ resolved.ok /\ resolved.safe /\ ~force_wait
        /\ result.kind # "Err")
    => (result = Execute(resolved.command) /\ keys = 0)

\* C4: a Command request answered by the daemon gives get_command the same
\* CommandResult (command text and safe flag) as the direct resolver call.
C4_LocationTransparent ==
    (cmd_fetch.via = "daemon" /\ cmd_fetch.wire = "ok") => cmd_fetch.value = resolved

\* C5 (as claimed): with "explain" in the query and safe=true from the
\* resolver, a session that ends has read a key, and an explanation was
\* fetched and shown.
C5_ExplainFetchedAndShown ==
    (force_wait /\ resolved.ok /\ resolved.safe /\ terminal)
    => (keys >= 1 /\ exp_requested /\ exp_outcome \in {"shown", "danger"})

\* C5 (amended): with "explain" in the query and safe=true from the resolver,
\* the session never auto-executes: it ends only after a key was read; an
\* explanation is requested exactly when an Explainer source exists (edge
\* stream, or an Explainer key in direct mode), and an explanation taken from
\* the channel is drawn in the reserved region.
C5_ExplainWaitsForKey ==
    (force_wait /\ resolved.ok /\ resolved.safe)
    => /\ terminal => (keys >= 1 /\ shown)
       /\ shown => (exp_requested <=> (is_edge_mode \/ gemini_api_key))
       /\ (exp_outcome \in {"shown", "danger"} /\ exp.n >= 1 /\ pc # "returned")
            => \E r \in Rows : term.rows[r] = <<"exp", 1>>

C5_Witness ==
    /\ force_wait /\ resolved.ok /\ resolved.safe
    /\ result.kind = "Execute"
    /\ exp_outcome = "shown"
    /\ keys >= 1

\* The terminal shows the command on the session's first row and nothing else.
output_is_command_only ==
    \A r \in Rows :
        term.rows[r] = (IF r < term.start THEN Cell("prev")
                        ELSE IF r = term.start THEN Cell("cmd") ELSE Cell("blank"))

\* C6 (as claimed): an auto-executed session outputs exactly the command and
\* no explanation is ever requested for it, in every source mode.
C6_AutoExecNoExplainer ==
    auto_executed
    => (result.text = resolved.command /\ output_is_command_only /\ ~exp_requested)

\* C6 (amended): an auto-executed session outputs exactly the command, reads
\* and renders no explanation and logs none; in direct mode no explanation is
\* requested for it at any time (in edge mode the one streaming request made
\* before the command is known already asks for it).
C6_AutoExecOutput ==
    auto_executed
    => /\ result.text = resolved.command
       /\ output_is_command_only
       /\ exp_outcome = "none"
       /\ log = LogEntry(resolved.command, NoneExp)
       /\ source = "Direct" => (~exp_requested /\ exp_worker = "unspawned")

C6_Witness == auto_executed /\ source = "Direct" /\ cmd_worker = "exited"

\* C7: when the session takes an error from the explanation channel it stays
\* in its main loop with the command and the confirm prompt on screen and no
\* result; after that Enter returns Execute, Ctrl-C or Esc return Cancel, and
\* nothing else ends the session.
C7_FailureLeadsToConfirm ==
    [][/\ (exp_outcome # "failed" /\ exp_outcome' = "failed")
            => /\ pc' = "loop_keys" /\ result' = NoResult
               /\ command_visible(term')
               /\ term'.rows[term'.cur] = Cell("prompt")
       /\ (exp_outcome = "failed" /\ result # result')
            => /\ keys' = keys + 1
               /\ last_key' \in {"Enter", "CtrlC", "Esc"}
       /\ (exp_outcome = "failed" /\ keys' = keys + 1 /\ last_key' = "Enter")
            => result' = Execute(command)
       /\ (exp_outcome = "failed" /\ keys' = keys + 1 /\ last_key' \in {"CtrlC", "Esc"})
            => result' = Cancel
      ]_vars

C7_Witness == exp_outcome = "failed" /\ result.kind = "Execute" /\ last_key = "Enter"

\* C8: in Confirm (an explanation without DANGER was drawn) Enter returns
\* Execute with exactly the resolver's command text, and Ctrl-C or Esc return
\* Cancel.
C8_ConfirmKeys ==
    [][(in_main_loop /\ exp_outcome = "shown" /\ keys' = keys + 1)
        => /\ last_key' = "Enter"
                => (result' = Execute(resolved.command) /\ pc' = "returned")
           /\ last_key' \in {"CtrlC", "Esc"}
                => (result' = Cancel /\ pc' = "returned" /\ clipboard' = clipboard)
      ]_vars

C8_Witness ==
    /\ exp_outcome = "shown" /\ exp.tag \in {"SAFE", "CAUTION"}
    /\ result = Execute(resolved.command) /\ last_key = "Enter"

\* What a step may not touch while the session stays in DangerConfirm.
danger_state == <<pc, result, clipboard, term, raw_mode, log>>

C10_LayoutStable ==
    /\ (explanation_rx /\ in_main_loop /\ exp_outcome = "none")
        => MoveUp(term, lines_to_go_up).cur = term.start
    /\ (exp_outcome \in {"shown", "danger", "failed"} /\ pc # "returned")
        => /\ term.rows[term.cmd_row] \in {Cell("cmd"), Cell("cmd_red")}
           /\ term.rows[term.cmd_row + 1] \in {Cell("prompt"), Cell("danger_prompt")}
           /\ \A r \in Rows :
                /\ r < term.start => term.rows[r] = Cell("prev")
                /\ term.rows[r] \notin {Cell("dot"), Cell("loading")}
                /\ r > term.cmd_row + 1 => term.rows[r] = Cell("blank")

\* ---------------------------------------------------------------- C11
\* The rows reserved for the explanation: the RESERVED_LINES placeholder rows.
reserved_rows(t) == t.start .. (t.start + RESERVED_LINES - 1)

\* C11: once an explanation of exp.n formatted lines has been drawn, the
\* reserved rows hold its first min(n, RESERVED_LINES) lines in order, every
\* other reserved row is blank, and no explanation line is on any other row.
C11_RegionFilled ==
    exp_outcome \in {"shown", "danger"}
        => /\ \A i \in 1 .. RESERVED_LINES :
                term.rows[term.start + i - 1] =
                    IF i <= Min(exp.n, RESERVED_LINES) THEN <<"exp", i>> ELSE Cell("blank")
           /\ \A r \in Rows :
                term.rows[r][1] = "exp" => r \in reserved_rows(term)

\* ---------------------------------------------------------------- C12
\* C12: raw mode is enabled only while the session runs: whenever
\* run_interactive has returned raw mode is off, on every return path taken
\* after it was enabled; when enabling fails the session returns an error
\* with nothing drawn and raw mode off.
C12_RawModeRestored ==
    /\ pc = "returned" => ~raw_mode
    /\ result = ErrResult("Terminal error") => (~raw_mode /\ term = InitTerm(term.start))
    /\ raw_mode => pc \in {"wait_cmd", "loop_exp", "loop_keys", "danger_loop"}

\* A return after raw mode was enabled: the wait for the command timed out.
C12_Witness ==
    /\ pc = "returned"
    /\ result = ErrResult("Timeout")
    /\ term.rows[term.start] = Cell("generating")
    /\ ~raw_mode

\* ---------------------------------------------------------------- C13
\* Command resolution has failed: the worker obtained an error, not a command.
resolution_failed == cmd_fetch.via # "none" /\ ~cmd_fetch.value.ok

\* C13: when the session leaves the wait for the command after resolution has
\* failed with reason e, it returns the error e itself; the command is not
\* shown and Execute is not returned.
C13_FailureReasonReported ==
    [][(pc = "wait_cmd" /\ pc' = "returned" /\ resolution_failed)
            => /\ result' = ErrResult(cmd_fetch.value.error)
               /\ ~shown'
      ]_vars

\* ---------------------------------------------------------------- C14
\* Some row of the screen holds a line of explanation text.
explanation_visible(t) == \E r \in Rows : t.rows[r][1] = "exp"

\* C14: a value is taken from the explanation channel only after the command
\* has been drawn and only when no explanation outcome has been rendered yet;
\* explanation text on the screen is the first explanation obtained for this
\* session's request, drawn below an already shown command.
C14_CommandBeforeExplanation ==
    /\ [][Len(exp_chan') < Len(exp_chan)
            => /\ shown
               /\ exp_outcome = "none"
               /\ exp_requested
               /\ Head(exp_chan) = exp_result
      ]_vars
    /\ [](explanation_visible(term)
            => /\ shown
               /\ exp_outcome \in {"shown", "danger"}
               /\ exp = exp_result.exp)

\* An edge session that rendered the first explanation while a second one,
\* sent by the same stream, stays unread on the channel.
C14_Witness ==
    /\ source = "Edge"
    /\ exp_outcome = "shown" /\ explanation_visible(term)
    /\ exp = exp_result.exp
    /\ Len(exp_chan) = 1
    /\ pc = "loop_exp"

\* ---------------------------------------------------------------- C15
\* What a key that is neither Enter, Ctrl-C nor Esc must leave alone.
confirm_state == <<result, term, raw_mode, clipboard, log, command, exp, exp_outcome,
                   explanation_text, explanation_printed>>

\* C15: once the command is shown, the result is set only by a step that reads
\* Enter, Ctrl-C or Esc, and then to Execute or Cancel; no other step (an
\* explanation arriving, failing, its channel closing, an empty poll) ends the
\* session, and reading any other key changes nothing of the session.
C15_OnlyKeysEndSession ==
    [][shown
        => /\ (result' # result \/ (pc # "returned" /\ pc' = "returned"))
                => /\ keys' = keys + 1
                   /\ last_key' \in {"Enter", "CtrlC", "CtrlAltC", "Esc"}
                   /\ result'.kind \in {"Execute", "Cancel"}
           /\ (keys' = keys + 1 /\ last_key' = "Char")
                => /\ UNCHANGED confirm_state
                   /\ pc' \in {"loop_exp", "danger_loop"}
      ]_vars

\* The explanation failed and an ordinary key was read: the session goes on.
C15_Witness ==
    /\ shown
    /\ exp_outcome = "failed"
    /\ last_key = "Char"
    /\ pc = "loop_exp"
    /\ result = NoResult

\* ---------------------------------------------------------------- C16
\* What the session has produced when it returns.
session_outcome == <<result, term, raw_mode, clipboard, log, exp, exp_outcome,
                     explanation_text, cmd_chan, exp_chan>>

\* C16: the control thread never changes the state of the explanation worker
\* (returning sends it nothing); the worker stops only by finishing its own
\* call; whatever it does after the session returned, its send included,
\* leaves the channels and the session's result and output as they were.
C16_LateResultIgnored ==
    [][/\ (pc' # pc => exp_worker' = exp_worker \/ (exp_worker = "unspawned" /\ pc = "wait_cmd"))
       /\ (exp_worker = "running" /\ exp_worker' # "running")
            => (exp_worker' = "exited" /\ exp_result' # NoExpResult)
       /\ pc = "returned" => UNCHANGED session_outcome
      ]_vars

\* The user confirmed or cancelled while the worker was running; the worker
\* then obtained an explanation, and its send left the channel empty.
C16_Witness ==
    /\ pc = "returned" /\ terminal
    /\ exp_worker = "exited" /\ exp_result.ok
    /\ exp_outcome = "none"
    /\ exp_chan = <<>>

\* ---------------------------------------------------------------- C17
\* C17: at most one daemon process is inside its serve loop at any time.
C17_SingleDaemon == Cardinality({d \in Daemons : listening(d)}) <= 1

\* ---------------------------------------------------------------- C18
\* More than the idle threshold has passed since daemon d last accepted.
idle_too_long(d) == listening(d) /\ idle_timeout(elapsed(d), last_activity[d])

\* C18: a daemon that has accepted nothing for longer than the idle threshold
\* eventually leaves its main loop; a daemon that has returned has set its
\* shutdown flag, and the step by which it returns leaves no socket path.
C18_IdleTimeoutShutsDown ==
    /\ \A d \in Daemons : idle_too_long(d) ~> (dpc[d] = "done")
    /\ [](\A d \in Daemons : dpc[d] = "done" => shutdown[d])
    /\ [][\A d \in Daemons : (dpc[d] # "done" /\ dpc'[d] = "done") => socket_path' = 0]_vars

\* ---------------------------------------------------------------- C19
\* What the daemon can answer to a valid request.
normal_answers(d) ==
    {handle_request(request[d], g, get_or_init_ok(d), x) :
        g \in DaemonGroqOutcomes, x \in DaemonGeminiOutcomes}

\* C19: reading a line that is not a valid request yields a response with
\* success = false and a non-empty error; every response is then written to
\* the stream and the daemon is back in its main loop; a valid request is
\* answered from the backend's outcome whatever was answered before.
C19_InvalidRequestAnswered ==
    [][\A d \in Daemons :
        /\ (dpc[d] = "read" /\ dpc'[d] # "read"
              /\ conn[stream[d]].line \in (InvalidLines \cup UnreadableLines))
            => /\ dpc'[d] = "send"
               /\ ~response'[d].success
               /\ response'[d].error # None
               /\ unwrap_or(response'[d].error, "") # ""
        /\ (dpc[d] = "send" /\ dpc'[d] # "send")
            => /\ dpc'[d] = "loop"
               /\ conn'[stream[d]].received = conn[stream[d]].received + 1
        /\ (dpc[d] = "call" /\ dpc'[d] # "call")
            => /\ dpc'[d] \in {"explain", "send"}
               /\ dpc'[d] = "send" => response'[d] \in normal_answers(d)
        /\ (dpc[d] = "explain" /\ dpc'[d] # "explain")
            => /\ dpc'[d] = "send"
               /\ response'[d] \in normal_answers(d)
      ]_vars

\* A daemon that answered an invalid line is about to send a successful
\* response to a later request.
C19_Witness ==
    /\ answered_invalid
    /\ dpc[2] = "off"
    /\ dpc[1] = "send"
    /\ response[1].success

\* ---------------------------------------------------------------- C20
\* The shape every IpcResponse is to have.
well_formed(r) ==
    IF r.success
      THEN r.result # None /\ r.error = None
      ELSE r.error # None /\ unwrap_or(r.error, "") # "" /\ r.result = None

\* C20: the line the daemon is about to write is well formed, whether the
\* response serialises or the fallback line is written instead.
C20_ResponseShape ==
    \A d \in Daemons :
        dpc[d] = "send"
            => \A serialized \in BOOLEAN : well_formed(send_response(response[d], serialized))

\* The daemon is about to report the missing Explainer credential.
C20_Witness ==
    \E d \in Daemons :
        /\ dpc[d] = "send"
        /\ request[d] = "explain"
        /\ ~daemon_gemini_key
        /\ response[d].error = Some("GEMINI_API_KEY not set")

\* ---------------------------------------------------------------- C21
\* The connections daemon d has accepted and not yet answered.
unanswered(d) ==
    {c \in Conns : conn[c].peer = d /\ conn[c].state = "accepted" /\ conn[c].received = 0}

\* C21: no connection ever holds more than one response; the connection a
\* daemon is handling is its only unanswered one, and a daemon back in its
\* main loop (where it accepts) has none; the step that ends the handling of
\* a connection is the step that wrote its single response.
C21_OneResponsePerConnection ==
    /\ [](\A c \in Conns :
            /\ conn[c].received <= 1
            /\ conn[c].state = "accepted" => conn[c].received = 0)
    /\ [](\A d \in Daemons :
            /\ dpc[d] \in {"read", "call", "explain", "send"} => unanswered(d) = {stream[d]}
            /\ dpc[d] \in {"loop", "exit", "done"} => unanswered(d) = {})
    /\ [][\A c \in Conns :
            (conn[c].state = "accepted" /\ conn'[c].state # "accepted")
                => (conn'[c].state = "closed" /\ conn'[c].received = 1)
       ]_vars

\* A request whose resolver call failed has been answered, once.
C21_Witness ==
    \E c \in Conns :
        /\ conn[c].state = "closed" /\ conn[c].received = 1 /\ conn[c].sent = 1
        /\ \E b \in Conns : b # c /\ conn[b].state = "accepted"

\* ---------------------------------------------------------------- C22
\* C22: a request the client has sent and that is not answered yet is on a
\* connection the daemon still holds, so that the daemon will read it and
\* answer it; this covers a second request on a connection already answered.
C22_ReusedConnectionAnswered ==
    \A c \in Conns :
        conn[c].sent > conn[c].received
            => /\ conn[c].state = "accepted"
               /\ \E d \in Daemons : stream[d] = c

\* ---------------------------------------------------------------- C23
\* What the direct remote call of the running operation yields.
direct_outcome == IF operation = "command" THEN remote_command ELSE remote_explanation

\* C23: when the connect fails (no daemon, a stale socket file, no
\* permission) the operation sends nothing to a daemon, makes the direct
\* remote call once and returns that call's own outcome: it succeeds exactly
\* when the direct call does, with the direct call's error otherwise.
C23_ConnectFailureFallsBack ==
    (bpc = "returned" /\ endpoint # "daemon")
        => /\ requests_sent = 0
           /\ direct_calls = 1
           /\ returned.ok = direct_outcome.ok
           /\ returned.error = direct_outcome.error

\* A stale socket file, and the direct explanation call has succeeded.
C23_Witness ==
    /\ bpc = "returned" /\ endpoint = "stale" /\ operation = "explain"
    /\ direct_calls = 1 /\ returned.ok

\* ---------------------------------------------------------------- C24
\* The response line the daemon writes for the running operation.
daemon_response ==
    handle_request(operation, remote_command, remote_key, remote_explanation)

exchange_failed == exchange # "ok" \/ ~daemon_response.success

\* C24: once the connect has succeeded the operation writes its request once,
\* makes no direct remote call and spawns nothing; a failed exchange is
\* returned as an error; and what has been returned is never replaced.
C24_ExchangeFailureReturned ==
    /\ []((bpc = "returned" /\ endpoint = "daemon")
            => /\ requests_sent = 1
               /\ direct_calls = 0
               /\ exchange_failed => (~returned.ok /\ returned.error # ""))
    /\ [][/\ requests_sent' <= 1
          /\ bpc = "returned" => (bpc' = "returned" /\ returned' = returned)]_vars

\* The daemon has closed the connection without a response line.
C24_Witness ==
    /\ bpc = "returned" /\ endpoint = "daemon" /\ exchange = "eof"
    /\ ~returned.ok /\ requests_sent = 1 /\ direct_calls = 0

\* ---------------------------------------------------------------- C25
\* C25: an operation that found no daemon has made its direct call and has
\* called spawn_daemon_background by the time it returns.
C25_FallbackSpawnsDaemon ==
    (bpc = "returned" /\ endpoint # "daemon")
        => (direct_calls = 1 /\ spawn_attempts = 1)

\* ---------------------------------------------------------------- C26
\* C26: the main of the process spawn_daemon_background starts ends nowhere
\* but in run_daemon.
C26_SpawnedProcessIsDaemon ==
    child \notin {"none", "spawned"} => child = "run_daemon"

\* ---------------------------------------------------------------- C27
\* C27: no keep-alive wake-up of a serving daemon leaves a client the daemon
\* answers requests with, the Gemini client once initialised included,
\* without a ping.
C27_KeepAliveCoversEveryClient ==
    \A d \in Daemons : unpinged[d] = {}

\* ---------------------------------------------------------------- C28
\* The daemon is handling an Explain request it has parsed.
handling_explain(d) == dpc[d] = "call" /\ request[d] = "explain"

\* C28: the Gemini client exists only where there is a key and is warmed up
\* at most once; it is created, and its warm-up attempted, by no step but the
\* handling of an Explain request, and once created it stays; without a key
\* every Explain request is answered with a failure and no client is created.
C28_LazyGeminiOnce ==
    /\ [](\A d \in Daemons :
            /\ warmups[d] <= 1
            /\ gemini_client[d] => daemon_gemini_key
            /\ warmed_up[d] => gemini_client[d])
    /\ [][\A d \in Daemons :
            /\ gemini_client[d] => gemini_client'[d]
            /\ (gemini_client'[d] # gemini_client[d] \/ warmups'[d] # warmups[d])
                => handling_explain(d)
            /\ (handling_explain(d) /\ ~daemon_gemini_key /\ dpc'[d] # "call")
                => /\ dpc'[d] = "send"
                   /\ ~response'[d].success
                   /\ ~gemini_client'[d]
       ]_vars

\* A daemon that created and warmed its client for an earlier Explain
\* request has parsed another one.
C28_Witness ==
    \E d \in Daemons :
        /\ handling_explain(d)
        /\ gemini_client[d] /\ warmed_up[d] /\ warmups[d] = 1

\* ---------------------------------------------------------------- C29
\* C29: while the remote explain call is in progress the lock around the
\* Gemini client is free.
C29_LockFreeDuringExplain ==
    \A d \in Daemons : dpc[d] = "explain" => ~gemini_lock[d]

\* ---------------------------------------------------------------- C30
\* The step is a successful accept of daemon d.
accepts(d) == dpc[d] = "loop" /\ dpc'[d] = "read" /\ stream'[d] # 0

\* C30: last_activity never decreases, and no step but a successful accept
\* changes it.
C30_LastActivityFrame ==
    [][\A d \in Daemons :
        /\ last_activity'[d] >= last_activity[d]
        /\ last_activity'[d] # last_activity[d] => accepts(d)
      ]_vars

\* A daemon accepted a connection one second after its start; since then
\* the idle threshold has passed to the second, a keep-alive thread has pinged with the Gemini client in
\* place, and the main loop iterates with nothing to accept.
C30_Witness ==
    \E d \in Daemons :
        /\ dpc[d] = "loop" /\ backlog[d] = <<>>
        /\ last_activity[d] = 1
        /\ elapsed(d) = DAEMON_IDLE_TIMEOUT_SECS + 1
        /\ unpinged[d] = {"gemini"}

\* ---------------------------------------------------------------- C31
\* The connections daemon d has accepted and not closed.
in_hand(d) == {c \in Conns : conn[c].peer = d /\ conn[c].state = "accepted"}

\* C31: a daemon has at most one accepted connection in hand, the one its
\* request and response belong to; it takes connections from the head of its
\* listener's queue and keeps the one it took until it has answered; and a
\* response line arrives on no connection but the one in hand of the daemon
\* that sends.
C31_SerializedHandling ==
    /\ [](\A d \in Daemons :
            /\ Cardinality(in_hand(d)) <= 1
            /\ stream[d] # 0 => in_hand(d) = {stream[d]}
            /\ (request[d] # "none" \/ response[d] # NoResponse) => stream[d] # 0)
    /\ [][\A d \in Daemons :
            /\ (stream[d] = 0 /\ stream'[d] # 0) => stream'[d] = Head(backlog[d])
            /\ (stream[d] # 0 /\ stream'[d] # stream[d])
                => /\ dpc[d] = "send"
                   /\ stream'[d] = 0
                   /\ conn'[stream[d]].received = conn[stream[d]].received + 1
       ]_vars
    /\ [][\A c \in Conns :
            conn'[c].received # conn[c].received
                => \E d \in Daemons :
                        dpc[d] = "send" /\ stream[d] = c /\ conn[c].peer = d
       ]_vars

\* A daemon is about to answer one client while another client, connected
\* to the same daemon, waits in the queue.
C31_Witness ==
    \E d \in Daemons : \E a, b \in Conns :
        /\ dpc[d] = "send" /\ stream[d] = a
        /\ conn[b].peer = d /\ conn[b].state = "queued"

\* ---------------------------------------------------------------- C32
\* The main loop of daemon d ends in this step.
shuts_down(d) == dpc[d] = "loop" /\ dpc'[d] = "exit"

\* C32: last_activity never exceeds the seconds elapsed since the daemon's
\* start, so elapsed - last_activity is never negative; and the step by which
\* a daemon leaves its main loop is taken only with more than the idle
\* threshold elapsed since last_activity.
C32_IdleArithmetic ==
    /\ [](\A d \in Daemons :
            listening(d) => (last_activity[d] >= 0 /\ last_activity[d] <= elapsed(d)))
    /\ [][\A d \in Daemons :
            shuts_down(d) => elapsed(d) - last_activity[d] > DAEMON_IDLE_TIMEOUT_SECS
       ]_vars

\* A daemon that accepted a connection at second 1 is in its main loop with
\* exactly the threshold elapsed since: it stays.
C32_Witness ==
    \E d \in Daemons :
        /\ dpc[d] = "loop"
        /\ last_activity[d] = 1
        /\ elapsed(d) - last_activity[d] = DAEMON_IDLE_TIMEOUT_SECS

\* ---------------------------------------------------------------- C33
\* C33: the handling of every accepted connection ends, whatever its client
\* does: the connection is closed in the end.
C33_SilentClientCannotStall ==
    \A c \in Conns : (conn[c].state = "accepted") ~> (conn[c].state = "closed")

\* ---------------------------------------------------------------- C34
\* The step drops the server of daemon d, which has left its main loop.
drops_server(d) == dpc[d] = "exit" /\ dpc'[d] = "done"

\* C34: a daemon that has left its main loop removes the socket path only
\* when the path names its own listener; a path that names another daemon's
\* listener stays as it is.
C34_TeardownKeepsForeignPath ==
    [][\A d \in Daemons :
        (drops_server(d) /\ socket_path # d) => socket_path' = socket_path
      ]_vars

\* ---------------------------------------------------------------- C35
\* The step changes the shutdown flag of daemon d only by the idle path of
\* the main loop, which sets it.
flag_set_by_idle_path(d) ==
    shutdown'[d] # shutdown[d] => (shuts_down(d) /\ shutdown'[d])

\* Thread t of daemon d calls warmup in this step.
starts_ping(d, t) == keepalive[d][t] = "ping" /\ keepalive'[d][t] = "sleep"

\* C35 as stated: the flag is set by the idle path only and never cleared,
\* and no keep-alive thread calls warmup once the flag is set.
C35_NoPingAfterShutdown ==
    [][\A d \in Daemons :
        /\ flag_set_by_idle_path(d)
        /\ \A t \in Tasks : starts_ping(d, t) => ~shutdown[d]
      ]_vars

\* C35: the flag is set by the idle path only and never cleared; a thread
\* goes on to its ping only from a wake-up that found the flag unset, a
\* wake-up that finds it set ends the thread, and a thread that has ended
\* stays so: after the flag is set each thread starts at most the one ping
\* whose flag check came before.
C35_ShutdownStopsKeepAlive ==
    [][\A d \in Daemons :
        /\ flag_set_by_idle_path(d)
        /\ \A t \in Tasks :
            /\ (keepalive[d][t] # "ping" /\ keepalive'[d][t] = "ping")
                => (keepalive[d][t] = "sleep" /\ ~shutdown[d])
            /\ (shutdown[d] /\ keepalive[d][t] = "sleep" /\ keepalive'[d][t] # "sleep")
                => keepalive'[d][t] = "exited"
            /\ keepalive[d][t] = "exited" => keepalive'[d][t] = "exited"
      ]_vars

\* The main loop has set the flag and not yet returned; one thread has found
\* the flag set and ended, the other has passed its check before.
C35_Witness ==
    \E d \in Daemons :
        /\ dpc[d] = "exit" /\ shutdown[d]
        /\ keepalive[d]["groq"] = "exited"
        /\ keepalive[d]["edge"] = "ping"

\* ---------------------------------------------------------------- C36
\* C36: once an explanation has been rendered the session is in DangerConfirm
\* exactly when the explanation's leading tag is DANGER; with a leading SAFE
\* or CAUTION tag it is in Confirm whatever the body mentions.
C36_DangerConfirmIffTagged ==
    exp_outcome \in {"shown", "danger"}
        => (exp_outcome = "danger" <=> exp.tag = "DANGER")

\* ---------------------------------------------------------------- C37
\* C37: once the explanation channel has been found closed and empty, the
\* session has stopped polling it and takes nothing from it again, shows no
\* explanation text, and is in its main loop until a key ends it: Enter
\* returns Execute with the resolver's command, Ctrl-C and Esc return Cancel,
\* any other key changes nothing.
C37_ClosedChannelConfirm ==
    /\ [](exp_outcome = "closed"
            => /\ explanation_printed
               /\ exp_chan = <<>>
               /\ ~explanation_visible(term)
               /\ in_main_loop \/ (pc = "returned" /\ terminal))
    /\ [][exp_outcome = "closed"
            => /\ exp_outcome' = "closed"
               /\ exp_chan' = exp_chan
               /\ keys' = keys + 1
                    => CASE last_key' = "Enter" ->
                                result' = Execute(resolved.command) /\ pc' = "returned"
                         [] last_key' \in {"CtrlC", "Esc"} ->
                                result' = Cancel /\ pc' = "returned"
                         [] OTHER ->
                                result' = result /\ pc' = "loop_exp" /\ term' = term
               /\ keys' = keys => (result' = result /\ term' = term /\ in_main_loop')
      ]_vars

\* An edge stream ended after its command event without an explanation; the
\* session found the channel closed and Enter then executed the command.
C37_Witness ==
    /\ source = "Edge"
    /\ exp_outcome = "closed" /\ exp_result = NoExpResult
    /\ result = Execute(resolved.command) /\ last_key = "Enter"

\* ---------------------------------------------------------------- C38
\* Some element of the text is a JSON object with the fields command and safe.
has_command_object(text) == \E i \in 1..Len(text) : text[i] \in {ObjSafe, ObjUnsafe}

\* C38: parse_response always returns a CommandResult, and for a text that
\* holds no JSON object with command and safe the result has safe = false, so
\* the session does not execute its command without a key.
C38_ConservativeParse ==
    parsed.state # "none"
        => /\ parsed.state = "ok"
           /\ ~has_command_object(content)
                => (~parsed.safe /\ ~auto_execute(parsed.safe, FALSE))

\* ---------------------------------------------------------------- C39
\* The text holds no JSON value.
non_json(text) == \A i \in 1..Len(text) : text[i] \notin JsonValues

\* The text opens, or closes, with the given characters; letters match in
\* either case.
opens_with(t, f) ==
    /\ Len(t) >= Len(f)
    /\ \A i \in 1..Len(f) : lowercase(t[i]) = f[i]
closes_with(t, f) ==
    /\ Len(t) >= Len(f)
    /\ \A i \in 1..Len(f) : t[Len(t) - Len(f) + i] = f[i]

\* The length of the fence the text opens with: three grave accents, an
\* optional bash or sh, and the newline after it if there is one.
leading_fence_len(t) ==
    LET words == {FenceBash, FenceSh, Fence}
        forms == {f \in words \cup {w \o Newline : w \in words} : opens_with(t, f)}
    IN  IF forms = {} THEN 0
        ELSE CHOOSE n \in {Len(f) : f \in forms} : \A f \in forms : Len(f) <= n

trailing_fence_len(t) ==
    IF closes_with(t, Newline \o Fence) THEN Len(Newline \o Fence)
    ELSE IF closes_with(t, Fence) THEN Len(Fence)
    ELSE 0

command_prefix_len(t) ==
    IF opens_with(t, CommandColon) THEN Len(CommandColon)
    ELSE IF opens_with(t, TheCommandIs) THEN Len(TheCommandIs)
    ELSE 0

\* The text without surrounding white space, one leading fence, one trailing
\* fence and one leading command prefix, trimmed again.
bare_command(text) ==
    LET t == trim(text)
        a == SubSeq(t, leading_fence_len(t) + 1, Len(t))
        b == SubSeq(a, 1, Len(a) - trailing_fence_len(a))
        c == SubSeq(b, command_prefix_len(b) + 1, Len(b))
    IN  trim(c)

\* A command with nothing around it: words separated by blanks.
is_bare(text) ==
    /\ text # <<>>
    /\ \A i \in 1..Len(text) : text[i] \in {"l", "s", " "}
    /\ text[1] # " " /\ text[Len(text)] # " "

\* C39: for a text that is not JSON, clean_response returns the text trimmed,
\* without one leading fence (bash, sh or none after the grave accents, in
\* either case, with its newline), without one trailing fence, without one
\* leading "Command:" or "The command is:" (in either case), and trimmed again;
\* a bare command comes back unchanged.
C39_CleanResponse ==
    (cleaned.state = "done" /\ non_json(content))
        => /\ cleaned.text = bare_command(content)
           /\ is_bare(content) => cleaned.text = content

\* A fenced command in upper-case BASH with a command prefix inside has been
\* cleaned down to the command.
C39_Witness ==
    /\ cleaned.state = "done"
    /\ content = <<Backtick, Backtick, Backtick, "B", "A", "S", "H">>
                    \o <<"C", "o", "m", "m", "a", "n", "d", ":", " ">> \o <<"l", "s">>
    /\ cleaned.text = <<"l", "s">>

====
